---- MODULE Spec2Model ----
(***************************************************************************)
(* Model of the system-metrics repository: the collector's delivery client *)
(* (MetricCollector.send_metrics), its threshold evaluator and alert       *)
(* cooldown (check_alerts, _send_alert), and the stand-alone alert router  *)
(* (AlertManager.send_alert).                                              *)
(*                                                                         *)
(* Time is counted in ticks of SecondsPerTick seconds.  Percentages are    *)
(* counted in hundredths of a percent (8500 is 85.00%).                    *)
(***************************************************************************)
EXTENDS Integers, Sequences, FiniteSets, TLC

VARIABLES
    now,             \* the wall clock read by datetime.utcnow(), in ticks
    config,          \* MetricCollector.config (the parts the pipeline reads)
    alert_cooldown,  \* MetricCollector.alert_cooldown: hash(message) -> time
    pc,              \* position of the caller in send_metrics
    attempt,         \* loop variable of send_metrics
    result,          \* what the last send_metrics call returned: "True", "False"
    trace,           \* history: the events of the current send_metrics call
    alertCalls,      \* history: the _send_alert calls of the last check_alerts
    firedByType,     \* history: alert type -> time its last alert was logged
    am_config,       \* AlertManager.config
    alert_history,   \* AlertManager.alert_history: "host:type" -> time
    amCall,          \* history: the last AlertManager.send_alert call
    amFired,         \* history: <<hostname, alert_type>> -> time last fired
    evalIn,          \* the snapshot and configuration given to check_alerts
    evalOut,         \* the messages check_alerts handed to _send_alert
    running,         \* MetricCollector.running
    rpc,             \* position of the scheduler in MetricCollector.run
    start_time,      \* start_time of the current cycle of run
    wakeAt,          \* time at which the current time.sleep of run returns
    sched,           \* history: counters and timings of the cycles of run
    clock,           \* the ingestion service's wall clock, in whole seconds
    locked,          \* MetricsDatabase.lock is held
    table,           \* the committed rows of the metrics table
    sqlite_sequence, \* the AUTOINCREMENT counter of the metrics table
    tstate,          \* the threads calling MetricsDatabase: position, call
    shist,           \* history: the rows ever committed with their payloads
    api              \* the ingestion service: last request handled, sweep task

vars == <<now, config, alert_cooldown, pc, attempt, result, trace,
          alertCalls, firedByType, am_config, alert_history, amCall, amFired,
          evalIn, evalOut, running, rpc, start_time, wakeAt, sched,
          clock, locked, table, sqlite_sequence, tstate, shist, api>>

evalVars == <<evalIn, evalOut>>

schedVars == <<running, rpc, start_time, wakeAt, sched>>

storeVars == <<clock, locked, table, sqlite_sequence, tstate, shist, api>>

collectorVars == <<config, alert_cooldown, pc, attempt, result, trace,
                   alertCalls, firedByType>>

amVars == <<am_config, alert_history, amCall, amFired>>

----------------------------------------------------------------------------
(* Bounds of the model *)

MaxTime == 3

MaxRetriesBound == 3

SecondsPerTick == 30

NoEntry == 0 - 1

----------------------------------------------------------------------------
(* Helpers *)

Get(d, k, default) == IF k \in DOMAIN d THEN d[k] ELSE default

Put(m, k, v) == (k :> v) @@ m

EntryOf(m, k) == IF k \in DOMAIN m THEN m[k] ELSE NoEntry

Range(s) == {s[i] : i \in 1..Len(s)}

Count(s, e) == Cardinality({i \in 1..Len(s) : s[i] = e})

----------------------------------------------------------------------------
(* Configuration of the collector *)

DefaultThresholds == [cpu |-> 8000, memory |-> 8500, disk |-> 9000, swap |-> 5000]

CooldownChoices == {1}

AlertChoices ==
    { [enabled |-> TRUE, channels |-> <<"log">>, slack_webhook_url |-> FALSE],
      [enabled |-> TRUE, channels |-> <<"slack", "email", "log">>,
       slack_webhook_url |-> TRUE],
      [enabled |-> FALSE, channels |-> <<"slack", "log">>,
       slack_webhook_url |-> FALSE] }

Configs ==
    { [max_retries |-> r, thresholds |-> DefaultThresholds,
       alerts_enabled |-> al.enabled, cooldown_minutes |-> cd,
       channels |-> al.channels, slack_webhook_url |-> al.slack_webhook_url,
       retry_delay |-> 0] :
         r \in 0..MaxRetriesBound, cd \in CooldownChoices, al \in AlertChoices }

----------------------------------------------------------------------------
(* Snapshots: what collect_metrics can return *)

Hostname == "host1"

CpuChoices == {8000, 8500, 8504, 8600}

DiskChoices ==
    { << [mountpoint |-> "/", percent |-> 9000],
         [mountpoint |-> "/data", percent |-> 4000] >> }

collect_metrics(t) ==
    { [timestamp |-> t, hostname |-> Hostname,
       cpu |-> [percent |-> c], memory |-> [percent |-> 5000],
       swap |-> [percent |-> 1000], disk |-> d] :
         c \in CpuChoices, d \in DiskChoices }
    \cup { [timestamp |-> t, hostname |-> Hostname, error |-> "psutil"] }

----------------------------------------------------------------------------
(* Threshold evaluator: the first half of check_alerts *)

\* f"{v:.1f}": the value in tenths of a percent, rounded to nearest (the
\* snapshot values used here never lie exactly between two tenths).
Fmt1(v) == (v + 5) \div 10

Message(type, mount, v, thr) ==
    [type |-> type, mount |-> mount, value |-> Fmt1(v), threshold |-> thr]

ScalarAlertAtLeast(family, metrics, thresholds) ==
    IF family \in DOMAIN thresholds /\ family \in DOMAIN metrics
    THEN LET percent == Get(metrics[family], "percent", 0)
         IN IF percent >= thresholds[family]
            THEN << Message(family, "", percent, thresholds[family]) >>
            ELSE << >>
    ELSE << >>

ScalarAlertDefaultFull(family, metrics, thresholds) ==
    IF family \in DOMAIN thresholds /\ family \in DOMAIN metrics
    THEN LET percent == Get(metrics[family], "percent", 10000)
         IN IF percent > thresholds[family]
            THEN << Message(family, "", percent, thresholds[family]) >>
            ELSE << >>
    ELSE << >>

ScalarAlert(family, metrics, thresholds) ==
    IF family \in DOMAIN thresholds /\ family \in DOMAIN metrics
    THEN LET percent == Get(metrics[family], "percent", 0)
         IN IF percent > thresholds[family]
            THEN << Message(family, "", percent, thresholds[family]) >>
            ELSE << >>
    ELSE << >>

RECURSIVE DiskLoopMasked(_, _)
DiskLoopMasked(disks, disk_threshold) ==
    IF disks = << >> THEN << >>
    ELSE LET disk == Head(disks)
         IN IF "percent" \in DOMAIN disk /\ disk.percent > disk_threshold
            THEN << Message("disk", Get(disk, "mountpoint", "unknown"),
                            disk.percent, disk_threshold) >>
                 \o DiskLoopMasked(Tail(disks), disk_threshold)
            ELSE << >>

RECURSIVE DiskLoop(_, _)
DiskLoop(disks, disk_threshold) ==
    IF disks = << >> THEN << >>
    ELSE LET disk == Head(disks)
         IN (IF "percent" \in DOMAIN disk /\ disk.percent > disk_threshold
             THEN << Message("disk", Get(disk, "mountpoint", "unknown"),
                             disk.percent, disk_threshold) >>
             ELSE << >>)
            \o DiskLoop(Tail(disks), disk_threshold)

DiskAlerts(metrics, thresholds) ==
    IF "disk" \in DOMAIN thresholds /\ "disk" \in DOMAIN metrics
    THEN DiskLoop(metrics.disk, thresholds.disk)
    ELSE << >>

alerts_triggeredSwapFirst(metrics, cfg) ==
    IF ~cfg.alerts_enabled THEN << >>
    ELSE ScalarAlert("cpu", metrics, cfg.thresholds)
         \o ScalarAlert("memory", metrics, cfg.thresholds)
         \o ScalarAlert("swap", metrics, cfg.thresholds)
         \o DiskAlerts(metrics, cfg.thresholds)

alerts_triggered(metrics, cfg) ==
    IF ~cfg.alerts_enabled THEN << >>
    ELSE ScalarAlert("cpu", metrics, cfg.thresholds)
         \o ScalarAlert("memory", metrics, cfg.thresholds)
         \o DiskAlerts(metrics, cfg.thresholds)
         \o ScalarAlert("swap", metrics, cfg.thresholds)

----------------------------------------------------------------------------
(* Alert cooldown and fan-out of the collector: _send_alert *)

\* hash(message) of a str: distinct messages get distinct keys (collisions
\* of the 64-bit string hash are not modelled).
hash(message) == message

\* The metric family (and mount, for disk) a message is about.
AlertType(message) == <<message.type, message.mount>>

\* time_diff = (current_time - last).total_seconds() / 60
\* time_diff < cooldown_minutes, with both sides multiplied by 60.
InWindow(last, t, cooldown_minutes) ==
    (t - last) * SecondsPerTick < cooldown_minutes * 60

RECURSIVE ChannelLoopUncaught(_, _, _)
ChannelLoopUncaught(channels, cfg, slackOk) ==
    IF channels = << >> THEN << >>
    ELSE LET channel == Head(channels)
             rest == ChannelLoopUncaught(Tail(channels), cfg, slackOk)
         IN CASE channel = "slack" ->
                   IF cfg.slack_webhook_url
                   THEN IF slackOk
                        THEN << [channel |-> "slack", ok |-> TRUE,
                                 raised |-> FALSE] >> \o rest
                        ELSE << [channel |-> "slack", ok |-> FALSE,
                                 raised |-> TRUE] >>
                   ELSE rest
              [] channel = "email" ->
                   << [channel |-> "email", ok |-> TRUE, raised |-> FALSE] >>
                   \o rest
              [] OTHER -> rest

\* The channel loop of _send_alert.  Each send is inside try/except
\* Exception: a send that fails is logged and raises nothing (raised is
\* FALSE), and the loop goes on with the next channel.
RECURSIVE ChannelLoop(_, _, _)
ChannelLoop(channels, cfg, slackOk) ==
    IF channels = << >> THEN << >>
    ELSE LET channel == Head(channels)
             rest == ChannelLoop(Tail(channels), cfg, slackOk)
         IN CASE channel = "slack" ->
                   (IF cfg.slack_webhook_url
                    THEN << [channel |-> "slack", ok |-> slackOk,
                             raised |-> FALSE] >>
                    ELSE << >>) \o rest
              [] channel = "email" ->
                   << [channel |-> "email", ok |-> TRUE, raised |-> FALSE] >>
                   \o rest
              [] OTHER -> rest

_send_alertForgets(st, message, t, cfg, slackOk) ==
    LET cooldown_key == hash(message)
        before == EntryOf(st.cooldown, cooldown_key)
        inCooldown == cooldown_key \in DOMAIN st.cooldown
                      /\ InWindow(st.cooldown[cooldown_key], t, cfg.cooldown_minutes)
        prevOfType == EntryOf(st.fired, AlertType(message))
    IN IF inCooldown
       THEN [cooldown |-> st.cooldown,
             fired |-> st.fired,
             calls |-> Append(st.calls,
                 [msg |-> message, at |-> t, suppressed |-> TRUE,
                  before |-> before, after |-> before, logged |-> FALSE,
                  prevOfType |-> prevOfType, sends |-> << >>])]
       ELSE [cooldown |-> (cooldown_key :> t),
             fired |-> Put(st.fired, AlertType(message), t),
             calls |-> Append(st.calls,
                 [msg |-> message, at |-> t, suppressed |-> FALSE,
                  before |-> before, after |-> t, logged |-> TRUE,
                  prevOfType |-> prevOfType,
                  sends |-> ChannelLoop(cfg.channels, cfg, slackOk)])]

_send_alert(st, message, t, cfg, slackOk) ==
    LET cooldown_key == hash(message)
        before == EntryOf(st.cooldown, cooldown_key)
        inCooldown == cooldown_key \in DOMAIN st.cooldown
                      /\ InWindow(st.cooldown[cooldown_key], t, cfg.cooldown_minutes)
        prevOfType == EntryOf(st.fired, AlertType(message))
    IN IF inCooldown
       THEN [cooldown |-> st.cooldown,
             fired |-> st.fired,
             calls |-> Append(st.calls,
                 [msg |-> message, at |-> t, suppressed |-> TRUE,
                  before |-> before, after |-> before, logged |-> FALSE,
                  prevOfType |-> prevOfType, sends |-> << >>])]
       ELSE [cooldown |-> Put(st.cooldown, cooldown_key, t),
             fired |-> Put(st.fired, AlertType(message), t),
             calls |-> Append(st.calls,
                 [msg |-> message, at |-> t, suppressed |-> FALSE,
                  before |-> before, after |-> t, logged |-> TRUE,
                  prevOfType |-> prevOfType,
                  sends |-> ChannelLoop(cfg.channels, cfg, slackOk)])]

RECURSIVE SendLoop(_, _, _, _, _)
SendLoop(alerts, st, t, cfg, slackOks) ==
    IF alerts = << >> THEN st
    ELSE SendLoop(Tail(alerts),
                  _send_alert(st, Head(alerts), t, cfg, Head(slackOks)),
                  t, cfg, Tail(slackOks))

check_alerts(metrics, st, t, cfg, slackOks) ==
    SendLoop(alerts_triggered(metrics, cfg), [st EXCEPT !.calls = << >>],
             t, cfg, slackOks)

----------------------------------------------------------------------------
(* Delivery client: send_metrics *)

Outcomes == {"ok", "transport", "local_pre", "local_post"}

AttemptEvents(outcome) ==
    CASE outcome = "ok"         -> <<"collect", "check", "post", "ok">>
      [] outcome = "transport"  -> <<"collect", "check", "post", "transport">>
      [] outcome = "local_post" -> <<"collect", "check", "post", "local">>
      [] outcome = "local_pre"  -> <<"collect", "check", "local">>
      [] outcome = "alert_raise" -> <<"collect", "check", "alert_raise">>

AfterAttemptNoReturn(outcome, att, max_retries) ==
    IF outcome \in {"ok", "transport"}
    THEN IF att < max_retries - 1
         THEN [pc |-> "sleep", result |-> "none", attempt |-> att]
         ELSE [pc |-> "done", result |-> IF outcome = "ok" THEN "True" ELSE "False", attempt |-> att]
    ELSE [pc |-> "done", result |-> "False", attempt |-> att]

AfterAttemptNoSleep(outcome, att, max_retries) ==
    CASE outcome = "ok" -> [pc |-> "done", result |-> "True", attempt |-> att]
      [] outcome = "transport" ->
           IF att < max_retries - 1
           THEN [pc |-> "loop", result |-> "none", attempt |-> att + 1]
           ELSE [pc |-> "done", result |-> "False", attempt |-> att]
      [] OTHER -> [pc |-> "done", result |-> "False", attempt |-> att]

AfterAttemptRetryLocal(outcome, att, max_retries) ==
    CASE outcome = "ok" -> [pc |-> "done", result |-> "True", attempt |-> att]
      [] OTHER ->
           IF att < max_retries - 1
           THEN [pc |-> "sleep", result |-> "none", attempt |-> att]
           ELSE [pc |-> "done", result |-> "False", attempt |-> att]

AfterAttemptUncaught(outcome, att, max_retries) ==
    CASE outcome = "ok" -> [pc |-> "done", result |-> "True", attempt |-> att]
      [] outcome = "transport" ->
           IF att < max_retries - 1
           THEN [pc |-> "sleep", result |-> "none", attempt |-> att]
           ELSE [pc |-> "done", result |-> "False", attempt |-> att]
      [] OTHER -> [pc |-> "done", result |-> "raised", attempt |-> att]

AfterAttempt(outcome, att, max_retries) ==
    CASE outcome = "ok" -> [pc |-> "done", result |-> "True", attempt |-> att]
      [] outcome = "transport" ->
           IF att < max_retries - 1
           THEN [pc |-> "sleep", result |-> "none", attempt |-> att]
           ELSE [pc |-> "done", result |-> "False", attempt |-> att]
      [] OTHER -> [pc |-> "done", result |-> "False", attempt |-> att]

\* An exception that leaves check_alerts: one that a channel send raised
\* past _send_alert.
AlertingRaised(calls) ==
    \E i \in 1..Len(calls) :
        \E j \in 1..Len(calls[i].sends) : calls[i].sends[j].raised

\* check_alerts runs inside the try block of the attempt, before the post:
\* an exception leaving it would end the attempt in "except Exception".
EffectiveOutcome(outcome, calls) ==
    IF AlertingRaised(calls) THEN "alert_raise" ELSE outcome

SlackOutcomes(alerts, cfg) ==
    IF cfg.slack_webhook_url /\ "slack" \in Range(cfg.channels)
    THEN [1..Len(alerts) -> BOOLEAN]
    ELSE {[i \in 1..Len(alerts) |-> TRUE]}

BeginSend ==
    /\ attempt' = 0
    /\ trace' = << >>
    /\ IF config.max_retries > 0
       THEN pc' = "loop" /\ result' = "none"
       ELSE pc' = "done" /\ result' = "False"

SendMetricsCall ==
    /\ pc = "idle"
    /\ BeginSend
    /\ UNCHANGED <<now, config, alert_cooldown, alertCalls, firedByType, amVars,
                   evalVars, storeVars, schedVars>>

Attempt ==
    /\ pc = "loop"
    /\ attempt < config.max_retries
    /\ \E metrics \in collect_metrics(now), outcome \in Outcomes :
       \E slackOks \in SlackOutcomes(alerts_triggered(metrics, config), config) :
         LET st == check_alerts(metrics,
                      [cooldown |-> alert_cooldown, fired |-> firedByType,
                       calls |-> << >>],
                      now, config, slackOks)
         IN /\ alert_cooldown' = st.cooldown
            /\ firedByType' = st.fired
            /\ alertCalls' = st.calls
            /\ LET eff == EffectiveOutcome(outcome, st.calls)
                   nx == AfterAttempt(eff, attempt, config.max_retries)
               IN /\ trace' = trace \o AttemptEvents(eff)
                  /\ pc' = nx.pc
                  /\ result' = nx.result
                  /\ attempt' = nx.attempt
    /\ UNCHANGED <<now, config, amVars, evalVars, storeVars, schedVars>>

\* time.sleep(retry_delay) in the RequestException handler; it returns only
\* for a delay that is not negative.
RetrySleep ==
    /\ pc = "sleep"
    /\ config.retry_delay >= 0
    /\ trace' = Append(trace, "sleep")
    /\ attempt' = attempt + 1
    /\ pc' = "loop"
    /\ UNCHANGED <<now, config, alert_cooldown, result, alertCalls,
                   firedByType, amVars, evalVars, storeVars, schedVars>>

SendMetricsReturn ==
    /\ pc = "done"
    /\ pc' = "idle"
    /\ attempt' = 0
    /\ trace' = << >>
    /\ UNCHANGED <<now, config, alert_cooldown, result, alertCalls,
                   firedByType, amVars, evalVars, storeVars, schedVars>>

Tick ==
    /\ now < MaxTime
    /\ now' = now + 1
    /\ UNCHANGED <<collectorVars, amVars, evalVars, storeVars, schedVars>>

----------------------------------------------------------------------------
(* Specification of the collector *)

NoSched ==
    [cycles |-> 0, ended |-> 0, warnings |-> 0, prevStart |-> NoEntry,
     prevElapsed |-> NoEntry, lastElapsed |-> NoEntry, lastSleep |-> NoEntry,
     signalIn |-> "none", signalPosts |-> NoEntry, prevResult |-> "none",
     errors |-> 0, instant |-> 0]

\* The threads that call the methods of the one MetricsDatabase: two
\* handling /ingest, the retention sweep, and one serving the dashboard.
Writers == {"w1", "w2"}

Sweepers == {"sweep"}

Readers == {"r1"}

Threads == Writers \cup Sweepers \cup Readers

NoTx == [ins |-> {}, del |-> {}]

\* A thread outside every call of the store.
IdleThread ==
    [pc |-> "idle", op |-> "none", arg |-> << >>, tx |-> NoTx, made |-> NoTx,
     ret |-> "none", before |-> {}]

\* The service after startup_event: no request handled yet, and the
\* periodic_cleanup task in its first asyncio.sleep of a day.
NoApi ==
    [kind |-> "none", req |-> << >>, status |-> 0, stored |-> "none",
     sweeps |-> 0, sweepAt |-> 24 * 60 * 60, sweepLog |-> << >>]

\* MetricsDatabase.__init__ on a new database file: an unlocked Lock and
\* the empty metrics table that _init_database creates.
InitDatabase ==
    /\ clock = 0
    /\ locked = FALSE
    /\ table = {}
    /\ sqlite_sequence = 0
    /\ tstate = [t \in Threads |-> IdleThread]
    /\ shist = << >>
    /\ api = NoApi

InitOther ==
    /\ InitDatabase
    /\ evalIn = [kind |-> "none"]
    /\ evalOut = [done |-> FALSE]
    /\ running = TRUE
    /\ rpc = "init"
    /\ start_time = NoEntry
    /\ wakeAt = NoEntry
    /\ sched = NoSched

Init ==
    /\ now = 0
    /\ config \in Configs
    /\ alert_cooldown = << >>
    /\ pc = "idle"
    /\ attempt = 0
    /\ result = "none"
    /\ trace = << >>
    /\ alertCalls = << >>
    /\ firedByType = << >>
    /\ am_config = [channels |-> <<"log">>, cooldown_minutes |-> 5]
    /\ alert_history = << >>
    /\ amCall = [kind |-> "none"]
    /\ amFired = << >>
    /\ InitOther

Next ==
    \/ SendMetricsCall
    \/ Attempt
    \/ RetrySleep
    \/ SendMetricsReturn
    \/ Tick

Spec == Init /\ [][Next]_vars

----------------------------------------------------------------------------
(* The stand-alone alert router: AlertManager *)

Hostnames == { <<"a">>, <<"a", ":", "b">> }

AlertTypes == { <<"c">>, <<"b", ":", "c">> }

AMChannelChoices ==
    { <<"log">>, <<"slack", "email">>, <<"webhook", "pager", "log">> }

AMConfigs ==
    { [channels |-> ch, cooldown_minutes |-> cd] :
         ch \in AMChannelChoices, cd \in CooldownChoices }

KnownChannels == {"slack", "email", "webhook", "log"}

\* f"{hostname}:{alert_type}", strings being sequences of characters.
AMKey(alert_type, hostname) == hostname \o <<":">> \o alert_type

_is_in_cooldownInclusive(hist, alert_type, hostname, t, cfg) ==
    LET key == AMKey(alert_type, hostname)
    IN IF key \in DOMAIN hist
       THEN (t - hist[key]) * SecondsPerTick <= cfg.cooldown_minutes * 60
       ELSE FALSE

_is_in_cooldown(hist, alert_type, hostname, t, cfg) ==
    LET key == AMKey(alert_type, hostname)
    IN IF key \in DOMAIN hist
       THEN (t - hist[key]) * SecondsPerTick < cfg.cooldown_minutes * 60
       ELSE FALSE

_update_alert_history(hist, alert_type, hostname, t) ==
    Put(hist, AMKey(alert_type, hostname), t)

RECURSIVE AMChannelLoopBreak(_, _, _)
AMChannelLoopBreak(channels, oks, acc) ==
    IF channels = << >> THEN acc
    ELSE LET channel == Head(channels)
         IN IF channel \in KnownChannels
            THEN LET acc2 == [sends |-> Append(acc.sends,
                                        [channel |-> channel, ok |-> Head(oks)]),
                              success |-> IF Head(oks) THEN acc.success ELSE FALSE,
                              checks |-> acc.checks]
                 IN IF Head(oks)
                    THEN AMChannelLoopBreak(Tail(channels), Tail(oks), acc2)
                    ELSE acc2
            ELSE AMChannelLoopBreak(Tail(channels), Tail(oks), acc)

RECURSIVE AMChannelLoopLastWins(_, _, _)
AMChannelLoopLastWins(channels, oks, acc) ==
    IF channels = << >> THEN acc
    ELSE LET channel == Head(channels)
         IN AMChannelLoopLastWins(Tail(channels), Tail(oks),
               IF channel \in KnownChannels
               THEN [sends |-> Append(acc.sends,
                                      [channel |-> channel, ok |-> Head(oks)]),
                     success |-> Head(oks),
                     checks |-> acc.checks]
               ELSE acc)

RECURSIVE AMChannelLoop(_, _, _)
AMChannelLoop(channels, oks, acc) ==
    IF channels = << >> THEN acc
    ELSE LET channel == Head(channels)
         IN AMChannelLoop(Tail(channels), Tail(oks),
               IF channel \in KnownChannels
               THEN [sends |-> Append(acc.sends,
                                      [channel |-> channel, ok |-> Head(oks)]),
                     success |-> IF Head(oks) THEN acc.success ELSE FALSE,
                     checks |-> acc.checks]
               ELSE acc)

send_alertExtendsWindow(hist, alert_type, hostname, t1, t2, cfg, oks) ==
    IF _is_in_cooldown(hist, alert_type, hostname, t1, cfg)
    THEN [history |-> _update_alert_history(hist, alert_type, hostname, t2),
          suppressed |-> TRUE, ret |-> FALSE, sends |-> << >>, checks |-> 1]
    ELSE LET out == AMChannelLoop(cfg.channels, oks,
                        [sends |-> << >>, success |-> TRUE, checks |-> 1])
         IN [history |-> _update_alert_history(hist, alert_type, hostname, t2),
             suppressed |-> FALSE, ret |-> out.success,
             sends |-> out.sends, checks |-> out.checks]

send_alertUpdateOnSuccess(hist, alert_type, hostname, t1, t2, cfg, oks) ==
    IF _is_in_cooldown(hist, alert_type, hostname, t1, cfg)
    THEN [history |-> hist, suppressed |-> TRUE, ret |-> FALSE,
          sends |-> << >>, checks |-> 1]
    ELSE LET out == AMChannelLoop(cfg.channels, oks,
                        [sends |-> << >>, success |-> TRUE, checks |-> 1])
         IN [history |-> IF out.success
                         THEN _update_alert_history(hist, alert_type, hostname, t2)
                         ELSE hist,
             suppressed |-> FALSE, ret |-> out.success,
             sends |-> out.sends, checks |-> out.checks]

send_alert(hist, alert_type, hostname, t1, t2, cfg, oks) ==
    IF _is_in_cooldown(hist, alert_type, hostname, t1, cfg)
    THEN [history |-> hist, suppressed |-> TRUE, ret |-> FALSE,
          sends |-> << >>, checks |-> 1]
    ELSE LET out == AMChannelLoop(cfg.channels, oks,
                        [sends |-> << >>, success |-> TRUE, checks |-> 1])
         IN [history |-> _update_alert_history(hist, alert_type, hostname, t2),
             suppressed |-> FALSE, ret |-> out.success,
             sends |-> out.sends, checks |-> out.checks]

AMSendAlert ==
    \E alert_type \in AlertTypes, hostname \in Hostnames, d \in 0..1,
       oks \in [1..Len(am_config.channels) -> BOOLEAN] :
         /\ now + d <= MaxTime
         /\ LET r == send_alert(alert_history, alert_type, hostname,
                                now, now + d, am_config, oks)
                key == AMKey(alert_type, hostname)
            IN /\ alert_history' = r.history
               /\ amCall' = [kind |-> "send_alert", alert_type |-> alert_type,
                             hostname |-> hostname, at |-> now,
                             suppressed |-> r.suppressed, ret |-> r.ret,
                             sends |-> r.sends, checks |-> r.checks,
                             before |-> EntryOf(alert_history, key),
                             after |-> EntryOf(r.history, key),
                             prevFired |-> EntryOf(amFired, <<hostname, alert_type>>)]
               /\ amFired' = IF r.suppressed THEN amFired
                             ELSE Put(amFired, <<hostname, alert_type>>, now + d)
               /\ now' = IF r.suppressed THEN now ELSE now + d
         /\ UNCHANGED <<am_config, collectorVars, evalVars, storeVars, schedVars>>

InitAM ==
    /\ now = 0
    /\ config = [max_retries |-> 3, thresholds |-> DefaultThresholds,
                 alerts_enabled |-> TRUE, cooldown_minutes |-> 5,
                 channels |-> <<"log">>, slack_webhook_url |-> FALSE]
    /\ alert_cooldown = << >>
    /\ pc = "idle"
    /\ attempt = 0
    /\ result = "none"
    /\ trace = << >>
    /\ alertCalls = << >>
    /\ firedByType = << >>
    /\ am_config \in AMConfigs
    /\ alert_history = << >>
    /\ amCall = [kind |-> "none"]
    /\ amFired = << >>
    /\ InitOther

NextAM ==
    \/ AMSendAlert
    \/ Tick

SpecAM == InitAM /\ [][NextAM]_vars

----------------------------------------------------------------------------
(* Properties of the delivery client *)

AttemptOutcomes ==
    SelectSeq(trace, LAMBDA e : e \in {"ok", "transport", "local"})

Posts == Count(trace, "post")

FailsThenOk(outs, k) ==
    /\ Len(outs) >= k + 1
    /\ outs[k + 1] = "ok"
    /\ \A i \in 1..k : outs[i] = "transport"

AllFail(outs, n) ==
    /\ Len(outs) >= n
    /\ \A i \in 1..n : outs[i] = "transport"

C2_BoundedRetries ==
    /\ Posts <= config.max_retries
    /\ \A i \in 1..Len(trace) :
          /\ (trace[i] = "collect" /\ i > 1) =>
                (i > 2 /\ trace[i - 1] = "sleep" /\ trace[i - 2] = "transport")
          /\ trace[i] = "sleep" => (i > 1 /\ trace[i - 1] = "transport")

C2_Witness ==
    /\ Count(trace, "sleep") = 2
    /\ Posts = 3
    /\ pc = "done"

C5_SnapshotOncePerCycle ==
    (pc = "done" /\ config.max_retries > 0) =>
        (Count(trace, "collect") = 1 /\ Count(trace, "check") = 1)

----------------------------------------------------------------------------
(* Properties of the collector's alert cooldown *)

\* C6: an alert of a type (metric family, mount) that already had an alert
\* logged within the cooldown window is not logged again, whatever the
\* observed over-threshold value.
C6_OnePerTypePerWindow ==
    \A i \in 1..Len(alertCalls) :
        LET c == alertCalls[i]
        IN (c.prevOfType # NoEntry
            /\ InWindow(c.prevOfType, c.at, config.cooldown_minutes))
           => ~c.logged

\* A suppressed _send_alert call of the collector logs nothing, sends on no
\* channel and leaves the cooldown entry of its key as it was.
CollectorSuppressedNoEffect ==
    \A i \in 1..Len(alertCalls) :
        LET c == alertCalls[i]
        IN c.suppressed => (~c.logged /\ c.sends = << >> /\ c.after = c.before)

\* A fired _send_alert call of the collector dispatches to the slack and
\* email entries of the configuration in configuration order, each once,
\* whether or not the slack send raised.
CollectorEveryChannelOnce ==
    \A i \in 1..Len(alertCalls) :
        LET c == alertCalls[i]
        IN ~c.suppressed =>
             [j \in 1..Len(c.sends) |-> c.sends[j].channel]
             = SelectSeq(config.channels,
                  LAMBDA ch : ch = "email"
                              \/ (ch = "slack" /\ config.slack_webhook_url))

----------------------------------------------------------------------------
(* Properties of AlertManager.send_alert *)

AMCalled == amCall.kind = "send_alert"

ChannelsOf(sends) == [i \in 1..Len(sends) |-> sends[i].channel]

SomeSendFailed(sends) == \E i \in 1..Len(sends) : ~sends[i].ok

\* C7: a send_alert call is suppressed exactly when the same
\* (hostname, alert_type) pair fired less than cooldown_minutes before it;
\* an entry of another hostname or another alert_type never suppresses it.
C7_KeyedPerHostAndType ==
    AMCalled =>
        (amCall.suppressed <=>
            (amCall.prevFired # NoEntry
             /\ InWindow(amCall.prevFired, amCall.at, am_config.cooldown_minutes)))

\* C8 as stated: a suppressed send_alert call attempts no channel send,
\* leaves the cooldown map as it was, and returns something other than the
\* False it returns for a delivery failure.
C8_SuppressedDistinct ==
    [][(amCall' # amCall /\ amCall'.suppressed) =>
          (/\ amCall'.sends = << >>
           /\ alert_history' = alert_history
           /\ amCall'.ret # FALSE)]_vars

\* C8 as amended: a suppressed send_alert call attempts no channel send,
\* leaves the whole cooldown map as it was (the window is not extended), and
\* returns False, the value it also returns for a delivery failure.
C8_SuppressedNoEffect ==
    [][(amCall' # amCall /\ amCall'.suppressed) =>
          (/\ amCall'.sends = << >>
           /\ alert_history' = alert_history
           /\ amCall'.ret = FALSE)]_vars

C8_Witness ==
    /\ AMCalled
    /\ amCall.suppressed
    /\ amCall.before # NoEntry
    /\ amCall.at = amCall.before + 1
    /\ amCall.after = amCall.before

C10_FalseIffSomeSendFailed ==
    (AMCalled /\ ~amCall.suppressed) =>
        (amCall.ret = FALSE <=> SomeSendFailed(amCall.sends))

C10_Witness ==
    /\ AMCalled
    /\ ~amCall.suppressed
    /\ Len(amCall.sends) = 2
    /\ ~amCall.sends[1].ok
    /\ amCall.sends[2].ok
    /\ amCall.ret = FALSE

----------------------------------------------------------------------------
(* Properties of the cooldown maps *)

\* C11: a send_alert call that is not suppressed leaves the cooldown map
\* equal to the old map with the call's key set to the current time,
\* whichever of its channel sends succeed or fail; no other entry changes.
C11_CooldownSetOnFire ==
    [][(amCall' # amCall /\ ~amCall'.suppressed) =>
          (/\ alert_history'
                = Put(alert_history,
                      AMKey(amCall'.alert_type, amCall'.hostname), now')
           /\ amCall'.at <= now')]_vars

C11_Witness ==
    /\ AMCalled
    /\ ~amCall.suppressed
    /\ Len(amCall.sends) = 2
    /\ \A i \in 1..2 : ~amCall.sends[i].ok
    /\ amCall.ret = FALSE
    /\ amCall.before # NoEntry
    /\ amCall.after = now
    /\ amCall.after > amCall.before

\* A fired _send_alert call of the collector sets the cooldown entry of its
\* key to the time of the call, whether or not the slack send raised.
CollectorCooldownSetOnFire ==
    \A i \in 1..Len(alertCalls) :
        LET c == alertCalls[i]
        IN ~c.suppressed =>
             (c.after = c.at /\ hash(c.msg) \in DOMAIN alert_cooldown)

\* C12: in every step every key of the collector's cooldown map stays in
\* the map and its last-fired time does not decrease.
C12_CooldownMonotone ==
    [][\A k \in DOMAIN alert_cooldown :
          k \in DOMAIN alert_cooldown' /\ alert_cooldown'[k] >= alert_cooldown[k]]_vars

C12_Witness ==
    /\ Cardinality(DOMAIN alert_cooldown) = 2
    /\ \E i \in 1..Len(alertCalls) :
          /\ alertCalls[i].before # NoEntry
          /\ alertCalls[i].after > alertCalls[i].before

\* The same for AlertManager.alert_history.
AMHistoryMonotone ==
    [][\A k \in DOMAIN alert_history :
          k \in DOMAIN alert_history' /\ alert_history'[k] >= alert_history[k]]_vars

----------------------------------------------------------------------------
(* The threshold evaluator on its own: one check_alerts call on a fresh    *)
(* collector, as in the --test mode of main                                *)

Present(v) == [has |-> TRUE, v |-> v]

Absent == [has |-> FALSE]

Field(name, opt) == IF opt.has THEN (name :> opt.v) ELSE << >>

EvalCpuChoices ==
    { Absent, Present([count |-> 4]),
      Present([count |-> 4, percent |-> 7999]),
      Present([count |-> 4, percent |-> 8000]),
      Present([count |-> 4, percent |-> 8001]) }

EvalMemoryChoices ==
    { Absent, Present([percent |-> 8500]), Present([percent |-> 9000]) }

EvalSwapChoices ==
    { Absent, Present([percent |-> 5000]), Present([percent |-> 6000]) }

EvalDiskChoices ==
    { Absent,
      Present(<< >>),
      Present(<< [mountpoint |-> "/", percent |-> 9500] >>),
      Present(<< [mountpoint |-> "/", percent |-> 4000],
                 [mountpoint |-> "/data", percent |-> 9500] >>),
      Present(<< [mountpoint |-> "/", percent |-> 9500],
                 [mountpoint |-> "/data", percent |-> 9600] >>),
      Present(<< [mountpoint |-> "/", fstype |-> "ext4"],
                 [mountpoint |-> "/data", percent |-> 9500] >>),
      Present(<< [percent |-> 9500],
                 [mountpoint |-> "/data", percent |-> 9000] >>) }

EvalSnapshots ==
    { [timestamp |-> 0, hostname |-> Hostname]
      @@ Field("cpu", c) @@ Field("memory", m)
      @@ Field("disk", d) @@ Field("swap", w) :
         c \in EvalCpuChoices, m \in EvalMemoryChoices,
         d \in EvalDiskChoices, w \in EvalSwapChoices }

EvalThresholds ==
    { Field("cpu", c) @@ Field("memory", m) @@ Field("disk", d) @@ Field("swap", w) :
         c \in {Absent, Present(0), Present(8000)},
         m \in {Absent, Present(8500)},
         d \in {Absent, Present(9000)},
         w \in {Absent, Present(5000)} }

EvalConfigs ==
    { [max_retries |-> 3, thresholds |-> th, alerts_enabled |-> en,
       cooldown_minutes |-> 5, channels |-> <<"log">>,
       slack_webhook_url |-> FALSE] :
         th \in EvalThresholds, en \in BOOLEAN }

Evaluate ==
    /\ evalIn.kind = "snapshot"
    /\ ~evalOut.done
    /\ LET alerts == alerts_triggered(evalIn.metrics, config)
       IN \E slackOks \in SlackOutcomes(alerts, config) :
            LET st == check_alerts(evalIn.metrics,
                         [cooldown |-> alert_cooldown, fired |-> firedByType,
                          calls |-> << >>],
                         now, config, slackOks)
            IN /\ alert_cooldown' = st.cooldown
               /\ firedByType' = st.fired
               /\ alertCalls' = st.calls
               /\ evalOut' = [done |-> TRUE,
                              alerts |-> [i \in 1..Len(st.calls) |-> st.calls[i].msg]]
    /\ UNCHANGED <<now, config, pc, attempt, result, trace, amVars, evalIn,
                   schedVars, storeVars>>

InitEval ==
    /\ now = 0
    /\ config \in EvalConfigs
    /\ alert_cooldown = << >>
    /\ pc = "idle"
    /\ attempt = 0
    /\ result = "none"
    /\ trace = << >>
    /\ alertCalls = << >>
    /\ firedByType = << >>
    /\ am_config = [channels |-> <<"log">>, cooldown_minutes |-> 5]
    /\ alert_history = << >>
    /\ amCall = [kind |-> "none"]
    /\ amFired = << >>
    /\ evalIn \in {[kind |-> "snapshot", metrics |-> m] : m \in EvalSnapshots}
    /\ evalOut = [done |-> FALSE]
    /\ InitDatabase
    /\ running = TRUE
    /\ rpc = "init"
    /\ start_time = NoEntry
    /\ wakeAt = NoEntry
    /\ sched = NoSched

NextEval == Evaluate

SpecEval == InitEval /\ [][NextEval]_vars

----------------------------------------------------------------------------
(* Properties of the threshold evaluator *)

EvalDone == evalOut.done /\ config.alerts_enabled

AlertsOfType(alerts, family) == SelectSeq(alerts, LAMBDA m : m.type = family)

OverMounts(disks, limit) ==
    SelectSeq(disks, LAMBDA d : "percent" \in DOMAIN d /\ d.percent > limit)

HasPercent(metrics, family) ==
    family \in DOMAIN metrics /\ "percent" \in DOMAIN metrics[family]

\* C13: with alerts enabled, for each of cpu, memory and swap that has a
\* threshold and a percent in the snapshot, check_alerts hands exactly one
\* alert of that family to _send_alert when percent > threshold and none
\* otherwise (none when they are equal).
C13_FiresIffAbove ==
    EvalDone =>
        \A family \in {"cpu", "memory", "swap"} :
            (family \in DOMAIN config.thresholds /\ HasPercent(evalIn.metrics, family)) =>
                LET emitted == AlertsOfType(evalOut.alerts, family)
                    percent == evalIn.metrics[family].percent
                    limit == config.thresholds[family]
                IN IF percent > limit
                   THEN /\ Len(emitted) = 1
                        /\ emitted[1].value = Fmt1(percent)
                        /\ emitted[1].threshold = limit
                   ELSE emitted = << >>

C13_Witness ==
    /\ EvalDone
    /\ "cpu" \in DOMAIN config.thresholds
    /\ HasPercent(evalIn.metrics, "cpu")
    /\ evalIn.metrics.cpu.percent = config.thresholds.cpu
    /\ "memory" \in DOMAIN config.thresholds
    /\ HasPercent(evalIn.metrics, "memory")
    /\ evalIn.metrics.memory.percent > config.thresholds.memory
    /\ AlertsOfType(evalOut.alerts, "cpu") = << >>
    /\ Len(AlertsOfType(evalOut.alerts, "memory")) = 1

\* C14: with alerts enabled and a disk threshold, the disk alerts handed to
\* _send_alert are exactly one per mount whose percent > thresholds.disk,
\* naming that mount, and none for any other mount.
C14_DiskPerMount ==
    (EvalDone /\ "disk" \in DOMAIN config.thresholds
              /\ "disk" \in DOMAIN evalIn.metrics) =>
        LET emitted == AlertsOfType(evalOut.alerts, "disk")
            over == OverMounts(evalIn.metrics.disk, config.thresholds.disk)
        IN /\ Len(emitted) = Len(over)
           /\ \A i \in 1..Len(over) :
                 /\ emitted[i].mount = Get(over[i], "mountpoint", "unknown")
                 /\ emitted[i].value = Fmt1(over[i].percent)

C14_Witness ==
    /\ EvalDone
    /\ "disk" \in DOMAIN config.thresholds
    /\ "disk" \in DOMAIN evalIn.metrics
    /\ Len(evalIn.metrics.disk) = 2
    /\ HasPercent(evalIn.metrics.disk, 1)
    /\ evalIn.metrics.disk[1].percent < config.thresholds.disk
    /\ Len(AlertsOfType(evalOut.alerts, "disk")) = 1
    /\ AlertsOfType(evalOut.alerts, "disk")[1].mount = "/data"

\* C15: a family without a threshold, a family missing from the snapshot,
\* a cpu, memory or swap block without a percent field and a mount without
\* a percent field yield no alert, and the call still completes.
C15_AbsenceSkips ==
    evalOut.done =>
        /\ \A family \in {"cpu", "memory", "disk", "swap"} :
              (\/ family \notin DOMAIN config.thresholds
               \/ family \notin DOMAIN evalIn.metrics
               \/ (family # "disk" /\ ~HasPercent(evalIn.metrics, family)))
              => AlertsOfType(evalOut.alerts, family) = << >>
        /\ "disk" \in DOMAIN evalIn.metrics =>
              Len(AlertsOfType(evalOut.alerts, "disk"))
                <= Cardinality({i \in 1..Len(evalIn.metrics.disk) :
                                   "percent" \in DOMAIN evalIn.metrics.disk[i]})

C15_Witness ==
    /\ EvalDone
    /\ "cpu" \in DOMAIN config.thresholds
    /\ "cpu" \in DOMAIN evalIn.metrics
    /\ ~HasPercent(evalIn.metrics, "cpu")
    /\ "memory" \notin DOMAIN config.thresholds
    /\ HasPercent(evalIn.metrics, "memory")
    /\ evalIn.metrics.memory.percent = 9000
    /\ "swap" \notin DOMAIN evalIn.metrics
    /\ "swap" \in DOMAIN config.thresholds
    /\ evalOut.alerts = << >>

FamilyRank(family) ==
    CASE family = "cpu" -> 1
      [] family = "memory" -> 2
      [] family = "disk" -> 3
      [] family = "swap" -> 4

\* C16: the messages reach _send_alert in the order cpu, memory, disk, swap,
\* the disk messages in the order of their mounts in the snapshot.
C16_FamilyOrder ==
    evalOut.done =>
        /\ \A i, j \in 1..Len(evalOut.alerts) :
              i < j => FamilyRank(evalOut.alerts[i].type)
                         <= FamilyRank(evalOut.alerts[j].type)
        /\ ("disk" \in DOMAIN config.thresholds /\ "disk" \in DOMAIN evalIn.metrics) =>
              LET emitted == AlertsOfType(evalOut.alerts, "disk")
                  over == OverMounts(evalIn.metrics.disk, config.thresholds.disk)
              IN \A i \in 1..Len(emitted) :
                    i <= Len(over)
                    /\ emitted[i].mount = Get(over[i], "mountpoint", "unknown")

C16_Witness ==
    /\ EvalDone
    /\ Len(evalOut.alerts) = 5
    /\ [i \in 1..5 |-> evalOut.alerts[i].type]
         = <<"cpu", "memory", "disk", "disk", "swap">>
    /\ evalOut.alerts[3].mount = "/"
    /\ evalOut.alerts[4].mount = "/data"

----------------------------------------------------------------------------
(* The collection scheduler: MetricCollector.run and _signal_handler *)

MaxRunTime == 5

\* pauses of the scheduler that end within the tick they began in
MaxInstantPauses == 1

IntervalChoices == {1, 2}

\* endpoint.retry_delay is not validated by _load_config: a negative value
\* makes time.sleep raise ValueError.
RetryDelayChoices == {0, 0 - 1}

RunConfigs ==
    { [max_retries |-> 2, thresholds |-> DefaultThresholds,
       alerts_enabled |-> FALSE, cooldown_minutes |-> 5,
       channels |-> <<"log">>, slack_webhook_url |-> FALSE,
       interval |-> T, retry_delay |-> d] :
         T \in IntervalChoices, d \in RetryDelayChoices }

\* time.sleep(5) of the "except Exception" branch of run
PauseSeconds == 5

\* A pause of PauseSeconds seconds seen on a clock of whole ticks.
PauseTicks ==
    { PauseSeconds \div SecondsPerTick,
      (PauseSeconds + SecondsPerTick - 1) \div SecondsPerTick }

sleep_timeFull(interval, elapsed_time) == interval

sleep_timeAbs(interval, elapsed_time) ==
    IF interval - elapsed_time > 0
    THEN interval - elapsed_time
    ELSE elapsed_time - interval

\* max(0, interval_seconds - elapsed_time), in ticks
sleep_time(interval, elapsed_time) ==
    IF interval - elapsed_time > 0 THEN interval - elapsed_time ELSE 0

LoopTopStopsOnFailure(sc) ==
    IF running /\ result \notin {"False", "raised"}
    THEN /\ rpc' = "cycle"
         /\ start_time' = now
         /\ BeginSend
         /\ sched' = [sc EXCEPT !.cycles = @ + 1, !.prevStart = start_time,
                                !.prevElapsed = sc.lastElapsed,
                                !.prevResult = result]
    ELSE /\ rpc' = "stopped"
         /\ pc' = "idle"
         /\ attempt' = 0
         /\ trace' = << >>
         /\ sched' = sc
         /\ UNCHANGED <<result, start_time>>

LoopTopIgnoresFlag(sc) ==
    /\ rpc' = "cycle"
    /\ start_time' = now
    /\ BeginSend
    /\ sched' = [sc EXCEPT !.cycles = @ + 1, !.prevStart = start_time,
                           !.prevElapsed = sc.lastElapsed,
                           !.prevResult = result]

\* "while self.running:" followed, when the flag is set, by the start of a
\* cycle: start_time = time.time() and the call of send_metrics.
LoopTop(sc) ==
    IF running
    THEN /\ rpc' = "cycle"
         /\ start_time' = now
         /\ BeginSend
         /\ sched' = [sc EXCEPT !.cycles = @ + 1, !.prevStart = start_time,
                                !.prevElapsed = sc.lastElapsed,
                                !.prevResult = result]
    ELSE /\ rpc' = "stopped"
         /\ pc' = "idle"
         /\ attempt' = 0
         /\ trace' = << >>
         /\ sched' = sc
         /\ UNCHANGED <<result, start_time>>

RunEnter ==
    /\ rpc = "init"
    /\ pc = "idle"
    /\ LoopTop(sched)
    /\ UNCHANGED <<now, config, alert_cooldown, alertCalls, firedByType,
                   running, wakeAt, amVars, evalVars, storeVars>>

CycleEnd ==
    /\ rpc = "cycle"
    /\ pc = "done"
    /\ LET elapsed_time == now - start_time
           st == sleep_time(config.interval, elapsed_time)
           sc == [sched EXCEPT !.ended = @ + 1,
                               !.lastElapsed = elapsed_time,
                               !.lastSleep = st,
                               !.warnings = IF st > 0 THEN @ ELSE @ + 1]
       IN IF st > 0
          THEN /\ rpc' = "sleep"
               /\ wakeAt' = now + st
               /\ sched' = sc
               /\ pc' = "idle"
               /\ attempt' = 0
               /\ trace' = << >>
               /\ UNCHANGED <<result, start_time>>
          ELSE /\ LoopTop(sc)
               /\ UNCHANGED wakeAt
    /\ UNCHANGED <<now, config, alert_cooldown, alertCalls, firedByType,
                   running, amVars, evalVars, storeVars>>

Wake ==
    /\ rpc = "sleep"
    /\ now >= wakeAt
    /\ LoopTop(sched)
    /\ UNCHANGED <<now, config, alert_cooldown, alertCalls, firedByType,
                   running, wakeAt, amVars, evalVars, storeVars>>

\* An exception that leaves send_metrics (time.sleep of a negative
\* retry_delay raises inside the RequestException handler) reaches
\* "except Exception" of run: it is logged and the loop pauses 5 seconds.
CycleError ==
    /\ rpc = "cycle"
    /\ pc = "sleep"
    /\ config.retry_delay < 0
    /\ rpc' = "pause"
    /\ \E d \in PauseTicks :
          /\ d = 0 => sched.instant < MaxInstantPauses
          /\ wakeAt' = now + d
          /\ sched' = [sched EXCEPT !.errors = @ + 1,
                                    !.instant = IF d = 0 THEN @ + 1 ELSE @,
                                    !.lastElapsed = NoEntry,
                                    !.lastSleep = NoEntry]
    /\ pc' = "idle"
    /\ attempt' = 0
    /\ trace' = << >>
    /\ result' = "raised"
    /\ UNCHANGED <<now, config, alert_cooldown, alertCalls, firedByType,
                   running, start_time, amVars, evalVars, storeVars>>

\* The pause is over: back to "while self.running".
PauseEnd ==
    /\ rpc = "pause"
    /\ now >= wakeAt
    /\ LoopTop(sched)
    /\ UNCHANGED <<now, config, alert_cooldown, alertCalls, firedByType,
                   running, wakeAt, amVars, evalVars, storeVars>>

SignalRaises ==
    /\ running
    /\ rpc # "stopped"
    /\ running' = FALSE
    /\ rpc' = "stopped"
    /\ pc' = "idle"
    /\ attempt' = 0
    /\ trace' = << >>
    /\ sched' = [sched EXCEPT !.signalIn = rpc, !.signalPosts = Posts]
    /\ UNCHANGED <<now, config, alert_cooldown, result, alertCalls,
                   firedByType, amVars, evalVars, storeVars, start_time, wakeAt>>

SignalResets ==
    /\ running
    /\ rpc # "stopped"
    /\ running' = FALSE
    /\ alert_cooldown' = << >>
    /\ attempt' = 0
    /\ sched' = [sched EXCEPT !.signalIn = rpc, !.signalPosts = Posts]
    /\ UNCHANGED <<now, config, pc, result, trace, alertCalls,
                   firedByType, amVars, evalVars, storeVars, rpc, start_time,
                   wakeAt>>

\* _signal_handler: the handler returns normally, so a time.sleep it
\* interrupted resumes for the rest of its duration.
Signal ==
    /\ running
    /\ rpc # "stopped"
    /\ running' = FALSE
    /\ sched' = [sched EXCEPT !.signalIn = rpc, !.signalPosts = Posts]
    /\ UNCHANGED <<now, collectorVars, amVars, evalVars, storeVars, rpc, start_time, wakeAt>>

\* Time passes.  A sleep returns at its deadline.  The horizon MaxRunTime
\* stops the clock except under a sleep of a scheduler that was told to
\* stop: that sleep always returns.
RunTick ==
    /\ rpc # "stopped"
    /\ rpc \in {"sleep", "pause"} => now < wakeAt
    /\ now < MaxRunTime \/ (~running /\ rpc \in {"sleep", "pause"})
    /\ now' = now + 1
    /\ UNCHANGED <<collectorVars, amVars, evalVars, storeVars, schedVars>>

InitRun ==
    /\ now = 0
    /\ config \in RunConfigs
    /\ alert_cooldown = << >>
    /\ pc = "idle"
    /\ attempt = 0
    /\ result = "none"
    /\ trace = << >>
    /\ alertCalls = << >>
    /\ firedByType = << >>
    /\ am_config = [channels |-> <<"log">>, cooldown_minutes |-> 5]
    /\ alert_history = << >>
    /\ amCall = [kind |-> "none"]
    /\ amFired = << >>
    /\ InitOther

NextRun ==
    \/ RunEnter
    \/ Attempt
    \/ RetrySleep
    \/ CycleEnd
    \/ Wake
    \/ CycleError
    \/ PauseEnd
    \/ Signal
    \/ RunTick

SpecRun == InitRun /\ [][NextRun]_vars

\* The steps of the scheduler's own thread: each statement of run and of
\* send_metrics that can execute eventually does, and time passes.  The
\* signal may or may not arrive.
RunStep ==
    \/ RunEnter
    \/ Attempt
    \/ RetrySleep
    \/ CycleEnd
    \/ Wake
    \/ CycleError
    \/ PauseEnd

SpecRunFair == SpecRun /\ WF_vars(RunStep) /\ WF_vars(RunTick)

\* The scheduler of a collector whose alerting is enabled.
RunAlertConfigs ==
    { [max_retries |-> 2, thresholds |-> DefaultThresholds,
       alerts_enabled |-> TRUE, cooldown_minutes |-> 1,
       channels |-> <<"log">>, slack_webhook_url |-> FALSE,
       interval |-> 2, retry_delay |-> d] : d \in RetryDelayChoices }

InitRunAlerts ==
    /\ now = 0
    /\ config \in RunAlertConfigs
    /\ alert_cooldown = << >>
    /\ pc = "idle"
    /\ attempt = 0
    /\ result = "none"
    /\ trace = << >>
    /\ alertCalls = << >>
    /\ firedByType = << >>
    /\ am_config = [channels |-> <<"log">>, cooldown_minutes |-> 5]
    /\ alert_history = << >>
    /\ amCall = [kind |-> "none"]
    /\ amFired = << >>
    /\ InitOther

SpecRunAlerts == InitRunAlerts /\ [][NextRun]_vars

----------------------------------------------------------------------------
(* Properties of the scheduler *)

\* C17: every finished cycle slept max(0, T - elapsed), a sleeping
\* scheduler wakes T after the start of its cycle, and a cycle that follows
\* a finished cycle with elapsed < T starts exactly T after that cycle
\* started.
C17_FixedCadence ==
    /\ sched.lastElapsed >= 0 =>
          /\ sched.lastSleep >= 0
          /\ sched.lastSleep >= config.interval - sched.lastElapsed
          /\ sched.lastSleep \in {0, config.interval - sched.lastElapsed}
    /\ rpc = "sleep" => wakeAt = start_time + config.interval
    /\ (sched.cycles >= 2 /\ sched.prevElapsed >= 0
        /\ sched.prevElapsed < config.interval) =>
          start_time = sched.prevStart + config.interval

C17_Witness ==
    /\ rpc = "cycle"
    /\ sched.cycles = 3
    /\ config.interval = 2
    /\ sched.prevElapsed = 1
    /\ start_time = sched.prevStart + 2
    /\ start_time = 4

\* C18: the end of a cycle whose elapsed time is >= T emits one warning,
\* does not sleep and, the flag being set, starts exactly one next cycle at
\* that same time.
C18_OverrunStartsNext ==
    [][(sched'.ended = sched.ended + 1 /\ now - start_time >= config.interval) =>
          (/\ sched'.warnings = sched.warnings + 1
           /\ rpc' # "sleep"
           /\ now' = now
           /\ running => (/\ rpc' = "cycle"
                          /\ start_time' = now
                          /\ pc' = "loop"
                          /\ sched'.cycles = sched.cycles + 1)
           /\ ~running => (rpc' = "stopped" /\ sched'.cycles = sched.cycles))]_vars

C18_Witness ==
    /\ rpc = "cycle"
    /\ sched.warnings >= 1
    /\ sched.cycles = 2
    /\ sched.ended = 1
    /\ sched.prevElapsed > config.interval
    /\ start_time = sched.prevStart + sched.prevElapsed

\* C19: once running is false it stays false, no further cycle is started,
\* the scheduler can only finish its sleep or pause or stop, and a stopped
\* scheduler stays stopped.
C19_NoCycleAfterShutdown ==
    [][/\ ~running => (/\ ~running'
                       /\ sched'.cycles = sched.cycles
                       /\ rpc' # rpc => rpc' \in {"sleep", "pause", "stopped"})
       /\ rpc = "stopped" => rpc' = "stopped"]_vars

C19_Witness ==
    /\ rpc = "stopped"
    /\ ~running
    /\ sched.signalIn = "cycle"
    /\ sched.cycles = 2
    /\ sched.ended = 2

\* C20: after a shutdown signal that arrived during the end-of-cycle sleep,
\* the scheduler spends no more time in that sleep.
C20_SleepInterruptible ==
    [][(rpc = "sleep" /\ ~running /\ sched.signalIn = "sleep") => now' = now]_vars

----------------------------------------------------------------------------
(* Properties of the run loop under shutdown and failure *)

\* A send_metrics call that has returned: True after a successful post,
\* False after a local error or after max_retries failed posts.
CompleteCall ==
    /\ pc = "done"
    /\ trace # << >>
    /\ \/ result = "True" /\ trace[Len(trace)] = "ok"
       \/ result = "False" /\ trace[Len(trace)] = "local"
       \/ result = "False" /\ trace[Len(trace)] = "transport"
          /\ Posts = config.max_retries

\* C21: the arrival of the shutdown signal during a cycle changes nothing
\* of the send_metrics call in flight; a cycle is left only by the return
\* of its send_metrics call (or by an exception of that call itself); and
\* once the signal has arrived the run loop eventually stops.
C21_InFlightCompletes ==
    /\ [][/\ (rpc = "cycle" /\ running /\ ~running') =>
                UNCHANGED <<rpc, pc, attempt, trace, result, start_time>>
          /\ (rpc = "cycle" /\ rpc' # "cycle") =>
                (CompleteCall \/ (pc = "sleep" /\ rpc' = "pause"))]_vars
    /\ (~running ~> rpc = "stopped")

C21_Witness ==
    /\ rpc = "cycle"
    /\ ~running
    /\ sched.signalIn = "cycle"
    /\ sched.signalPosts = 1
    /\ pc = "done"
    /\ Posts = 2
    /\ result = "True"

\* C22: while running is set the loop is never left; the end of a cycle
\* whose send_metrics call returned False sleeps max(0, T - elapsed) like
\* any other; and a scheduler that leaves its sleep, or the pause that
\* follows an exception, with running still set starts the next cycle.
C22_FailureKeepsRunning ==
    [][/\ running => rpc' # "stopped"
       /\ (rpc = "cycle" /\ pc = "done" /\ result = "False" /\ rpc' # rpc) =>
             LET st == sleep_time(config.interval, now - start_time)
             IN /\ sched'.lastSleep = st
                /\ st > 0 => (rpc' = "sleep" /\ wakeAt' = start_time + config.interval)
                /\ (st = 0 /\ running) =>
                      (/\ rpc' = "cycle"
                       /\ pc' = "loop"
                       /\ sched'.cycles = sched.cycles + 1)
       /\ (rpc = "cycle" /\ rpc' = "pause") => (running' = running)
       /\ (rpc \in {"sleep", "pause"} /\ rpc' # rpc /\ running) =>
             (/\ rpc' = "cycle"
              /\ pc' = "loop"
              /\ start_time' = now
              /\ sched'.cycles = sched.cycles + 1)]_vars

C22_Witness ==
    /\ rpc = "cycle"
    /\ running
    /\ pc = "loop"
    /\ sched.cycles = 3
    /\ sched.prevResult = "False"
    /\ sched.errors = 1
    /\ start_time = sched.prevStart + config.interval

----------------------------------------------------------------------------
(* Delivery and alerting *)

\* The alert calls of the last attempt, by what became of them.
SomeAlertFired == \E i \in 1..Len(alertCalls) : alertCalls[i].logged

SomeChannelFailed ==
    \E i \in 1..Len(alertCalls) :
        \E j \in 1..Len(alertCalls[i].sends) : ~alertCalls[i].sends[j].ok

\* C23: in every attempt the alert check is followed by the post of the
\* snapshot (or by a local error that is not one of alerting), whether
\* alerts fired, were suppressed or failed on a channel: no attempt ends
\* on an exception out of check_alerts.
C23_DeliveryIndependentOfAlerts ==
    \A i \in 1..Len(trace) :
        trace[i] = "check" =>
            (i < Len(trace) /\ trace[i + 1] \in {"post", "local"})

C23_Witness ==
    /\ pc = "done"
    /\ result = "True"
    /\ trace = <<"collect", "check", "post", "ok">>
    /\ SomeAlertFired
    /\ SomeChannelFailed

----------------------------------------------------------------------------
(* The ingestion store: MetricsDatabase *)

\* Bound of the store model: the largest row id.
MaxRowId == 2

SecondsPerHour == 3600

SecondsPerDay == 86400

\* The instants at which the store is called: the start, one second
\* later, and one day after that.
ClockInstants == {0, 1, SecondsPerDay + 1}

\* LIMIT 1000 of get_recent_metrics
RecentLimit == 1000

Max(S) == CHOOSE x \in S : \A y \in S : y <= x

\* A SystemMetrics object.  It carries a hostname of its own, next to the
\* one of the MetricsPayload around it.
Snapshot(h, ts, cpu, mem, net) ==
    [timestamp |-> ts, hostname |-> h,
     cpu |-> [percent |-> cpu],
     memory |-> [percent |-> mem, total |-> 8, used |-> mem \div 1000],
     swap |-> [percent |-> 0],
     disk |-> << [mountpoint |-> "/", percent |-> 5000] >>,
     network |-> net]

\* One payload as the collector builds it, and one whose two hostnames
\* differ: MetricsPayload does not compare them.
PayloadChoices ==
    { [hostname |-> "h1", metrics |-> Snapshot("h1", "T12", 5000, 6000, Absent)],
      [hostname |-> "h2",
       metrics |-> Snapshot("h1", "T13", 6000, 6500,
                            Present([bytes_sent |-> 1]))] }

DaysChoices == {0, 1}

HoursChoices == {24}

\* The hostname argument of the readers; "" stands for None and for the
\* empty string, which "if hostname:" treats alike.
HostArgs == {"", "h1"}

\* A NULL column value
Null == Absent

\* json.dumps: the text of a value, decodable back to that value
json_dumps(x) == [has |-> TRUE, json |-> x]

\* The row that the INSERT of store_metrics writes: the columns taken from
\* the payload, the id given by AUTOINCREMENT and created_at given by
\* CURRENT_TIMESTAMP.
InsertRowPartial(payload, id, t) ==
    [id |-> id,
     timestamp |-> payload.metrics.timestamp,
     hostname |-> payload.hostname,
     cpu_percent |-> payload.metrics.cpu.percent,
     memory_percent |-> payload.metrics.memory.percent,
     memory_total |-> payload.metrics.memory.total,
     memory_used |-> payload.metrics.memory.used,
     swap_percent |-> payload.metrics.swap.percent,
     disk_data |-> Null,
     network_data |-> Null,
     raw_data |-> Null,
     created_at |-> t]

InsertRow(payload, id, t) ==
    [id |-> id,
     timestamp |-> payload.metrics.timestamp,
     hostname |-> payload.hostname,
     cpu_percent |-> payload.metrics.cpu.percent,
     memory_percent |-> payload.metrics.memory.percent,
     memory_total |-> payload.metrics.memory.total,
     memory_used |-> payload.metrics.memory.used,
     swap_percent |-> payload.metrics.swap.percent,
     disk_data |-> json_dumps(payload.metrics.disk),
     network_data |-> IF payload.metrics.network.has
                      THEN json_dumps(payload.metrics.network.v)
                      ELSE Null,
     raw_data |-> json_dumps(payload),
     created_at |-> t]

NextIdRowid(tbl, seq) == Max({0} \cup {r.id : r \in tbl}) + 1

\* INTEGER PRIMARY KEY AUTOINCREMENT: one more than the largest id the
\* table ever held.
NextId(tbl, seq) == Max({seq} \cup {r.id : r \in tbl}) + 1

InsertOrReplace(tbl, tx) ==
    ({r \in tbl : \A n \in tx.ins :
          ~(r.hostname = n.hostname /\ r.timestamp = n.timestamp)}
     \ tx.del) \cup tx.ins

\* conn.commit(): the changes of the transaction become the table
commit(tbl, tx) == (tbl \ tx.del) \cup tx.ins

rollbackAutocommit(tbl, tx) == (tbl \ tx.del) \cup tx.ins

\* conn.rollback() in _get_connection, or the close of a connection with an
\* open transaction: the changes of the transaction are dropped
rollback(tbl, tx) == tbl

CanAcquireAlways(l) == TRUE

\* "with self.lock:" enters when the Lock is not held
CanAcquire(l) == ~l

QueryDirty(tbl, txs) == (tbl \ txs.del) \cup txs.ins

\* What a SELECT on a connection of its own reads: the committed table,
\* without the open transaction of any other connection.
Query(tbl, txs) == tbl

\* WHERE [hostname = ? AND] datetime(created_at) > datetime(?)
InWindowRows(tbl, hostname, since) ==
    {r \in tbl : /\ r.created_at > since
                 /\ hostname = "" \/ r.hostname = hostname}

\* ORDER BY created_at DESC: every order of the rows that is newest first.
\* Rows of equal created_at come in any order; when no two rows share a
\* created_at there is one order, found by counting the newer rows of each.
NewestFirst(S) ==
    IF Cardinality({r.created_at : r \in S}) = Cardinality(S)
    THEN LET ranked == {<<Cardinality({x \in S : x.created_at > r.created_at}), r>> :
                           r \in S}
         IN {[i \in 1..Cardinality(S) |-> (CHOOSE p \in ranked : p[1] = i - 1)[2]]}
    ELSE {sq \in [1..Cardinality(S) -> S] :
            /\ \A i, j \in 1..Cardinality(S) : i # j => sq[i] # sq[j]
            /\ \A i, j \in 1..Cardinality(S) :
                  i < j => sq[i].created_at >= sq[j].created_at}

TakeUnlimited(sq, n) == sq

\* LIMIT n
Take(sq, n) == IF Len(sq) <= n THEN sq ELSE SubSeq(sq, 1, n)

get_recent_metrics(tbl, hostname, hours, t) ==
    {Take(sq, RecentLimit) :
        sq \in NewestFirst(InWindowRows(tbl, hostname, t - hours * SecondsPerHour))}

RECURSIVE SumOf(_, _)
SumOf(S, col) ==
    IF S = {} THEN 0
    ELSE LET r == CHOOSE x \in S : TRUE
         IN r[col] + SumOf(S \ {r}, col)

AvgOfMax(S, col) ==
    IF S = {} THEN Null
    ELSE [has |-> TRUE, sum |-> Max({r[col] : r \in S}) * Cardinality(S),
          count |-> Cardinality(S)]

\* AVG(col) as the exact quotient sum / count; MAX(col); NULL over no rows
Avg(S, col) ==
    IF S = {} THEN Null
    ELSE [has |-> TRUE, sum |-> SumOf(S, col), count |-> Cardinality(S)]

MaxCol(S, col) == IF S = {} THEN Null ELSE Present(Max({r[col] : r \in S}))

get_summary_stats(tbl, hostname, hours, t) ==
    LET S == InWindowRows(tbl, hostname, t - hours * SecondsPerHour)
    IN [total_records |-> Cardinality(S),
        avg_cpu |-> Avg(S, "cpu_percent"), max_cpu |-> MaxCol(S, "cpu_percent"),
        avg_memory |-> Avg(S, "memory_percent"),
        max_memory |-> MaxCol(S, "memory_percent"),
        avg_swap |-> Avg(S, "swap_percent"),
        max_swap |-> MaxCol(S, "swap_percent")]

\* The open transactions of all connections.
OpenTx ==
    [ins |-> UNION {tstate[t].tx.ins : t \in Threads},
     del |-> UNION {tstate[t].tx.del : t \in Threads}]

----------------------------------------------------------------------------------------------------------------------------------------
(* The calls of the store, statement by statement *)

Enter(op, arg) ==
    [IdleThread EXCEPT !.pc = "locked", !.op = op, !.arg = arg,
                       !.before = table]

Leave(op, ret) == [IdleThread EXCEPT !.op = op, !.ret = ret]

\* store_metrics: "with self.lock:" is entered
StoreAcquire(t) ==
    /\ t \in Writers
    /\ tstate[t].pc = "idle"
    /\ CanAcquire(locked)
    /\ sqlite_sequence < MaxRowId
    /\ \E payload \in PayloadChoices :
          tstate' = [tstate EXCEPT ![t] = Enter("store", payload)]
    /\ locked' = TRUE
    /\ UNCHANGED <<clock, table, sqlite_sequence, shist>>

\* store_metrics: the three json.dumps and conn.execute(INSERT ...)
StoreInsert(t) ==
    /\ tstate[t].pc = "locked"
    /\ tstate[t].op = "store"
    /\ LET row == InsertRow(tstate[t].arg, NextId(table, sqlite_sequence), clock)
       IN tstate' = [tstate EXCEPT ![t].pc = "inserted",
                                   ![t].tx = [ins |-> {row}, del |-> {}]]
    /\ UNCHANGED <<clock, locked, table, sqlite_sequence, shist>>

\* cleanup_old_data: "with self.lock:" is entered
CleanupAcquire(t) ==
    /\ t \in Sweepers
    /\ tstate[t].pc = "idle"
    /\ CanAcquire(locked)
    /\ \E days_to_keep \in DaysChoices :
          tstate' = [tstate EXCEPT ![t] = Enter("cleanup", days_to_keep)]
    /\ locked' = TRUE
    /\ UNCHANGED <<clock, table, sqlite_sequence, shist>>

CleanupDeleteInclusive(t) ==
    /\ tstate[t].pc = "locked"
    /\ tstate[t].op = "cleanup"
    /\ LET cutoff_date == clock - tstate[t].arg * SecondsPerDay
           old == {r \in table : r.created_at <= cutoff_date}
       IN tstate' = [tstate EXCEPT ![t].pc = "inserted",
                                   ![t].tx = [ins |-> {}, del |-> old]]
    /\ UNCHANGED <<clock, locked, table, sqlite_sequence, shist>>

\* cleanup_old_data: cutoff_date and
\* DELETE ... WHERE datetime(created_at) < datetime(cutoff_date)
CleanupDelete(t) ==
    /\ tstate[t].pc = "locked"
    /\ tstate[t].op = "cleanup"
    /\ LET cutoff_date == clock - tstate[t].arg * SecondsPerDay
           old == {r \in table : r.created_at < cutoff_date}
       IN tstate' = [tstate EXCEPT ![t].pc = "inserted",
                                   ![t].tx = [ins |-> {}, del |-> old]]
    /\ UNCHANGED <<clock, locked, table, sqlite_sequence, shist>>

\* The rows of a transaction as entries of the history, in id order.
RECURSIVE LogOf(_, _)
LogOf(rows, payload) ==
    IF rows = {} THEN << >>
    ELSE LET r == CHOOSE x \in rows : \A y \in rows : x.id <= y.id
         IN << [row |-> r, payload |-> payload] >> \o LogOf(rows \ {r}, payload)

\* conn.commit() of either writer
Commit(t) ==
    /\ tstate[t].pc = "inserted"
    /\ table' = commit(table, tstate[t].tx)
    /\ sqlite_sequence' = Max({sqlite_sequence} \cup {r.id : r \in tstate[t].tx.ins})
    /\ shist' = shist \o LogOf(tstate[t].tx.ins, tstate[t].arg)
    /\ tstate' = [tstate EXCEPT ![t].pc = "committed",
                                ![t].made = tstate[t].tx,
                                ![t].tx = NoTx]
    /\ UNCHANGED <<clock, locked>>

\* "return True" of store_metrics, "return deleted_count" of
\* cleanup_old_data: the connection is closed and the lock released.
Return(t) ==
    /\ tstate[t].pc = "committed"
    /\ tstate' = [tstate EXCEPT ![t] =
                     Leave(tstate[t].op,
                           IF tstate[t].op = "store"
                           THEN "True"
                           ELSE Cardinality(tstate[t].made.del))]
    /\ locked' = FALSE
    /\ UNCHANGED <<clock, table, sqlite_sequence, shist>>

RaiseKeepsLock(t) ==
    /\ tstate[t].pc \in {"locked", "inserted"}
    /\ table' = rollback(table, tstate[t].tx)
    /\ tstate' = [tstate EXCEPT ![t] =
                     Leave(tstate[t].op,
                           IF tstate[t].op = "store" THEN "False" ELSE 0)]
    /\ UNCHANGED <<clock, locked, sqlite_sequence, shist>>

\* A statement inside the locked section raises (json.dumps, the INSERT or
\* DELETE, the commit): _get_connection rolls back and closes, the lock is
\* released, and the "except Exception" of the method returns False
\* (store_metrics) or 0 (cleanup_old_data).
Raise(t) ==
    /\ tstate[t].pc \in {"locked", "inserted"}
    /\ table' = rollback(table, tstate[t].tx)
    /\ tstate' = [tstate EXCEPT ![t] =
                     Leave(tstate[t].op,
                           IF tstate[t].op = "store" THEN "False" ELSE 0)]
    /\ locked' = FALSE
    /\ UNCHANGED <<clock, sqlite_sequence, shist>>

Asked(op, arg, ret) ==
    [IdleThread EXCEPT !.op = op, !.arg = arg, !.ret = ret]

\* get_recent_metrics: since_time, the SELECT and fetchall
Recent(t) ==
    /\ t \in Readers
    /\ tstate[t].pc = "idle"
    /\ \E hostname \in HostArgs, hours \in HoursChoices :
       \E rows \in get_recent_metrics(Query(table, OpenTx), hostname, hours, clock) :
          tstate' = [tstate EXCEPT ![t] =
                        Asked("recent", [hostname |-> hostname, hours |-> hours],
                              rows)]
    /\ UNCHANGED <<clock, locked, table, sqlite_sequence, shist>>

\* get_summary_stats: since_time, the SELECT and fetchone
Summary(t) ==
    /\ t \in Readers
    /\ tstate[t].pc = "idle"
    /\ \E hostname \in HostArgs, hours \in HoursChoices :
          tstate' = [tstate EXCEPT ![t] =
                        Asked("summary", [hostname |-> hostname, hours |-> hours],
                              get_summary_stats(Query(table, OpenTx), hostname,
                                                hours, clock))]
    /\ UNCHANGED <<clock, locked, table, sqlite_sequence, shist>>

ClockAdvance ==
    /\ \E c \in ClockInstants :
          /\ c > clock
          /\ clock' = c
    /\ UNCHANGED <<locked, table, sqlite_sequence, tstate, shist>>

\* Neither the collector nor the HTTP layer of the service takes a step.
CollectorIdle ==
    UNCHANGED <<now, collectorVars, amVars, evalVars, schedVars, api>>

InitStore ==
    /\ now = 0
    /\ config \in {c \in Configs : c.max_retries = 0 /\ ~c.alerts_enabled}
    /\ alert_cooldown = << >>
    /\ pc = "idle"
    /\ attempt = 0
    /\ result = "none"
    /\ trace = << >>
    /\ alertCalls = << >>
    /\ firedByType = << >>
    /\ am_config = [channels |-> <<"log">>, cooldown_minutes |-> 5]
    /\ alert_history = << >>
    /\ amCall = [kind |-> "none"]
    /\ amFired = << >>
    /\ InitOther

NextStore ==
    \/ \E t \in Threads :
          /\ \/ StoreAcquire(t)
             \/ StoreInsert(t)
             \/ CleanupAcquire(t)
             \/ CleanupDelete(t)
             \/ Commit(t)
             \/ Return(t)
             \/ Raise(t)
             \/ Recent(t)
             \/ Summary(t)
          /\ CollectorIdle
    \/ ClockAdvance /\ CollectorIdle

SpecStore == InitStore /\ [][NextStore]_vars

----------------------------------------------------------------------------
(* get_recent_metrics on tables of up to MaxBulk rows *)

\* Bound: the number of rows of the largest table, one more than the LIMIT.
MaxBulk == 1001

BulkSizes == {0, 1, 2, 3, RecentLimit, MaxBulk}

\* The payload of the i-th store_metrics call: always of host "h1", or of
\* the hosts "h1" and "h2" in turn.
BulkPayload(i, mixed) ==
    CHOOSE p \in PayloadChoices :
        p.hostname = (IF mixed /\ i % 2 = 0 THEN "h2" ELSE "h1")

\* The table after n store_metrics calls one second apart.
BulkTable(n, mixed) == {InsertRow(BulkPayload(i, mixed), i, i) : i \in 1..n}

\* The history of commits is not kept in this specification.
InitBulk ==
    /\ \E n \in BulkSizes, mixed \in BOOLEAN :
          /\ table = BulkTable(n, mixed)
          /\ clock = n
          /\ sqlite_sequence = n
    /\ locked = FALSE
    /\ tstate = [t \in Threads |-> IdleThread]
    /\ shist = << >>
    /\ api = NoApi

\* Time passes until the window of a day has left the first row, or every
\* row, behind.
ClockAdvanceBulk ==
    /\ \E c \in {SecondsPerDay + 1, SecondsPerDay + Cardinality(table)} :
          /\ c > clock
          /\ clock' = c
    /\ UNCHANGED <<locked, table, sqlite_sequence, tstate, shist>>

InitRecent ==
    /\ now = 0
    /\ config \in {c \in Configs : c.max_retries = 0 /\ ~c.alerts_enabled}
    /\ alert_cooldown = << >>
    /\ pc = "idle"
    /\ attempt = 0
    /\ result = "none"
    /\ trace = << >>
    /\ alertCalls = << >>
    /\ firedByType = << >>
    /\ am_config = [channels |-> <<"log">>, cooldown_minutes |-> 5]
    /\ alert_history = << >>
    /\ amCall = [kind |-> "none"]
    /\ amFired = << >>
    /\ evalIn = [kind |-> "none"]
    /\ evalOut = [done |-> FALSE]
    /\ running = TRUE
    /\ rpc = "init"
    /\ start_time = NoEntry
    /\ wakeAt = NoEntry
    /\ sched = NoSched
    /\ InitBulk

NextRecent ==
    \/ \E t \in Readers : Recent(t) /\ CollectorIdle
    \/ ClockAdvanceBulk /\ CollectorIdle

SpecRecent == InitRecent /\ [][NextRecent]_vars

----------------------------------------------------------------------------
(* get_summary_stats on tables of up to MaxSummaryRows rows *)

\* Bound: the number of rows of the largest table.
MaxSummaryRows == 3

\* Snapshots of memory percent 60, 65 and 70 as in test_get_summary_stats,
\* and one of another host.
SummaryPayloads ==
    { [hostname |-> "h1", metrics |-> Snapshot("h1", "T12", 4000, 6000, Absent)],
      [hostname |-> "h1", metrics |-> Snapshot("h1", "T13", 5000, 6500, Absent)],
      [hostname |-> "h1", metrics |-> Snapshot("h1", "T14", 4500, 7000, Absent)],
      [hostname |-> "h2", metrics |-> Snapshot("h2", "T12", 9000, 2000, Absent)] }

\* The table after the store_metrics calls of the payloads sq, one second
\* apart.
StoredInTurn(sq) == {InsertRow(sq[i], i, i) : i \in 1..Len(sq)}

InitSummary ==
    /\ now = 0
    /\ config \in {c \in Configs : c.max_retries = 0 /\ ~c.alerts_enabled}
    /\ alert_cooldown = << >>
    /\ pc = "idle"
    /\ attempt = 0
    /\ result = "none"
    /\ trace = << >>
    /\ alertCalls = << >>
    /\ firedByType = << >>
    /\ am_config = [channels |-> <<"log">>, cooldown_minutes |-> 5]
    /\ alert_history = << >>
    /\ amCall = [kind |-> "none"]
    /\ amFired = << >>
    /\ evalIn = [kind |-> "none"]
    /\ evalOut = [done |-> FALSE]
    /\ running = TRUE
    /\ rpc = "init"
    /\ start_time = NoEntry
    /\ wakeAt = NoEntry
    /\ sched = NoSched
    /\ \E n \in 0..MaxSummaryRows :
       \E sq \in [1..n -> SummaryPayloads] :
          /\ table = StoredInTurn(sq)
          /\ clock = n
          /\ sqlite_sequence = n
    /\ locked = FALSE
    /\ tstate = [t \in Threads |-> IdleThread]
    /\ shist = << >>
    /\ api = NoApi

NextSummary ==
    \/ \E t \in Readers : Summary(t) /\ CollectorIdle
    \/ ClockAdvanceBulk /\ CollectorIdle

SpecSummary == InitSummary /\ [][NextSummary]_vars

\* A thread inside the locked section goes on to its next statement, and a
\* thread that finds the lock free enters.
SectionStep ==
    \E t \in Threads :
        /\ \/ StoreInsert(t)
           \/ CleanupDelete(t)
           \/ Commit(t)
           \/ Return(t)
        /\ CollectorIdle

SpecStoreFair == SpecStore /\ WF_vars(SectionStep)

----------------------------------------------------------------------------
(* The ingestion service: request validation, /ingest, /cleanup and the
   periodic_cleanup task.  The handlers are coroutines that call the store
   without awaiting, so each runs from entry to response as one step of the
   event loop, and the write lock is free whenever one starts. *)

\* Bound of the service model: the number of retention sweeps followed.
MaxSweeps == 2

\* days_to_keep=30 of periodic_cleanup
SweepDays == 30

\* asyncio.sleep(24 * 60 * 60) of periodic_cleanup
SweepPeriod == 24 * 60 * 60

\* v.replace('Z', '+00:00') of validate_timestamp
ReplaceZ(v) == IF v = "T12Z" THEN "T12+00:00" ELSE v

\* The strings datetime.fromisoformat accepts
IsoFormats == {"T12", "T13", "T12+00:00"}

\* The validator of SystemMetrics.timestamp
validate_timestamp(v) == ReplaceZ(v) \in IsoFormats

\* Field(..., ge=0, le=100) in hundredths of a percent
PercentField(x) == x >= 0 /\ x <= 10000

MetricsFields == {"timestamp", "hostname", "cpu", "memory", "swap", "disk"}

validateFieldsOnly(body) ==
    /\ {"hostname", "metrics"} \subseteq DOMAIN body
    /\ MetricsFields \subseteq DOMAIN body.metrics

\* The parse of the request body into a MetricsPayload: every required field
\* present and every constraint of the models met.
validate(body) ==
    /\ {"hostname", "metrics"} \subseteq DOMAIN body
    /\ body.hostname # ""
    /\ MetricsFields \subseteq DOMAIN body.metrics
    /\ validate_timestamp(body.metrics.timestamp)
    /\ PercentField(body.metrics.cpu.percent)
    /\ body.metrics.memory.total > 0
    /\ body.metrics.memory.used >= 0
    /\ PercentField(body.metrics.memory.percent)
    /\ PercentField(body.metrics.swap.percent)
    /\ \A i \in 1..Len(body.metrics.disk) :
           PercentField(body.metrics.disk[i].percent)

BaseBody == [hostname |-> "h1", metrics |-> Snapshot("h1", "T12", 5000, 6000, Absent)]

\* Request bodies that meet every constraint; the second one has its
\* percents at the ends of the range and a timestamp with the suffix Z.
ValidBodies ==
    { BaseBody,
      [hostname |-> "h2", metrics |-> Snapshot("h2", "T12Z", 10000, 0, Absent)] }

\* Request bodies that break one constraint each: a percent above 100 and
\* one below 0, a total of zero, a timestamp that does not parse, a missing
\* field of the payload and of the snapshot, an empty hostname, and a disk
\* entry with a percent out of range.
MalformedBodies ==
    { [BaseBody EXCEPT !.metrics.cpu.percent = 15000],
      [BaseBody EXCEPT !.metrics.memory.percent = 0 - 100],
      [BaseBody EXCEPT !.metrics.memory.total = 0],
      [BaseBody EXCEPT !.metrics.timestamp = "invalid"],
      [hostname |-> "h1"],
      [BaseBody EXCEPT !.metrics =
           [f \in (DOMAIN BaseBody.metrics) \ {"cpu"} |-> BaseBody.metrics[f]]],
      [BaseBody EXCEPT !.hostname = ""],
      [BaseBody EXCEPT !.metrics.disk =
           << [mountpoint |-> "/", percent |-> 10001] >>] }

RequestBodies == ValidBodies \cup MalformedBodies

\* store_metrics from call to return: the INSERT and the commit when ok,
\* the exception path otherwise.
store_metrics(tbl, seq, payload, t, ok) ==
    LET row == InsertRow(payload, NextId(tbl, seq), t)
        tx == [ins |-> {row}, del |-> {}]
    IN IF ok
       THEN [table |-> commit(tbl, tx), seq |-> row.id,
             log |-> LogOf(tx.ins, payload), ret |-> TRUE]
       ELSE [table |-> rollback(tbl, tx), seq |-> seq,
             log |-> << >>, ret |-> FALSE]

\* cleanup_old_data from call to return: the DELETE and the commit when ok,
\* the exception path, which returns 0, otherwise.
cleanup_old_data(tbl, days_to_keep, t, ok) ==
    LET cutoff_date == t - days_to_keep * SecondsPerDay
        old == {r \in tbl : r.created_at < cutoff_date}
        tx == [ins |-> {}, del |-> old]
    IN IF ok
       THEN [table |-> commit(tbl, tx), ret |-> Cardinality(old)]
       ELSE [table |-> rollback(tbl, tx), ret |-> 0]

\* The body of ingest_metrics after the parse: the status of the response
\* for a result of store_metrics.  The HTTPException with status 500 is
\* raised inside the try, and "except Exception" catches it and raises the
\* one with status 400.
ingest_metrics(success) ==
    LET raised == IF success THEN 0 ELSE 500
        caught == raised # 0
    IN IF caught THEN 400 ELSE 200

\* The collector and the threads of the store take no step.
ApiQuiet ==
    UNCHANGED <<now, collectorVars, amVars, evalVars, schedVars, locked, tstate>>

\* POST /ingest.  A body that fails the parse is answered with 422 before
\* the handler runs; otherwise the handler calls store_metrics.
ApiIngest ==
    /\ ~locked
    /\ \E body \in RequestBodies :
           IF ~validate(body)
           THEN /\ api' = [api EXCEPT !.kind = "ingest", !.req = body,
                                      !.status = 422, !.stored = "none"]
                /\ UNCHANGED <<table, sqlite_sequence, shist>>
           ELSE /\ sqlite_sequence < MaxRowId
                /\ \E ok \in BOOLEAN :
                       LET res == store_metrics(table, sqlite_sequence, body, clock, ok)
                       IN /\ table' = res.table
                          /\ sqlite_sequence' = res.seq
                          /\ shist' = shist \o res.log
                          /\ api' = [api EXCEPT
                                 !.kind = "ingest", !.req = body,
                                 !.status = ingest_metrics(res.ret),
                                 !.stored = IF res.ret THEN "True" ELSE "False"]
    /\ UNCHANGED clock
    /\ ApiQuiet

\* POST /cleanup
ApiCleanup ==
    /\ ~locked
    /\ \E days_to_keep \in DaysChoices, ok \in BOOLEAN :
           LET res == cleanup_old_data(table, days_to_keep, clock, ok)
           IN /\ table' = res.table
              /\ api' = [api EXCEPT !.kind = "cleanup", !.req = days_to_keep,
                                    !.status = 200, !.stored = "none"]
    /\ UNCHANGED <<clock, sqlite_sequence, shist>>
    /\ ApiQuiet

PeriodicSweepStopsOnError ==
    /\ ~locked
    /\ api.sweeps < MaxSweeps
    /\ clock >= api.sweepAt
    /\ \A i \in 1..Len(api.sweepLog) : api.sweepLog[i].ok
    /\ \E ok \in BOOLEAN :
           LET res == cleanup_old_data(table, SweepDays, clock, ok)
           IN /\ table' = res.table
              /\ api' = [api EXCEPT
                     !.kind = "sweep",
                     !.sweeps = @ + 1,
                     !.sweepAt = clock + SweepPeriod,
                     !.sweepLog = Append(@, [at |-> clock, days |-> SweepDays,
                                             ok |-> ok, deleted |-> res.ret])]
    /\ UNCHANGED <<clock, sqlite_sequence, shist>>
    /\ ApiQuiet

\* One turn of the loop of periodic_cleanup: the sleep is over, the sweep
\* runs with days_to_keep=30, and the next sleep starts whether the sweep
\* worked or not.
PeriodicSweep ==
    /\ ~locked
    /\ api.sweeps < MaxSweeps
    /\ clock >= api.sweepAt
    /\ \E ok \in BOOLEAN :
           LET res == cleanup_old_data(table, SweepDays, clock, ok)
           IN /\ table' = res.table
              /\ api' = [api EXCEPT
                     !.kind = "sweep",
                     !.sweeps = @ + 1,
                     !.sweepAt = clock + SweepPeriod,
                     !.sweepLog = Append(@, [at |-> clock, days |-> SweepDays,
                                             ok |-> ok, deleted |-> res.ret])]
    /\ UNCHANGED <<clock, sqlite_sequence, shist>>
    /\ ApiQuiet

\* Time passes up to the moment the sleep of periodic_cleanup ends, or to
\* one second after it: the event loop may wake the task late.
ApiClock ==
    /\ clock < api.sweepAt
    /\ \E c \in {api.sweepAt, api.sweepAt + 1} : clock' = c
    /\ UNCHANGED <<table, sqlite_sequence, shist, api>>
    /\ ApiQuiet

\* Rows a database file holds when the service starts on it: none, or one
\* stored SweepDays before the first sweep or one second earlier.
StartRows ==
    { InsertRow(BaseBody, 1, SweepPeriod - SweepDays * SecondsPerDay - d) : d \in {0, 1} }

\* The store and the service at startup_event, on a new database file or
\* on an old one
InitService ==
    /\ clock = 0
    /\ locked = FALSE
    /\ tstate = [t \in Threads |-> IdleThread]
    /\ api = NoApi
    /\ \/ /\ table = {}
          /\ sqlite_sequence = 0
          /\ shist = << >>
       \/ \E r \in StartRows :
              /\ table = {r}
              /\ sqlite_sequence = r.id
              /\ shist = LogOf({r}, BaseBody)

InitApi ==
    /\ now = 0
    /\ config \in {c \in Configs : c.max_retries = 0 /\ ~c.alerts_enabled}
    /\ alert_cooldown = << >>
    /\ pc = "idle"
    /\ attempt = 0
    /\ result = "none"
    /\ trace = << >>
    /\ alertCalls = << >>
    /\ firedByType = << >>
    /\ am_config = [channels |-> <<"log">>, cooldown_minutes |-> 5]
    /\ alert_history = << >>
    /\ amCall = [kind |-> "none"]
    /\ amFired = << >>
    /\ evalIn = [kind |-> "none"]
    /\ evalOut = [done |-> FALSE]
    /\ running = TRUE
    /\ rpc = "init"
    /\ start_time = NoEntry
    /\ wakeAt = NoEntry
    /\ sched = NoSched
    /\ InitService

NextApi ==
    \/ ApiIngest
    \/ ApiCleanup
    \/ PeriodicSweep
    \/ ApiClock

SpecApi == InitApi /\ [][NextApi]_vars

\* The event loop runs a task whose sleep is over, and time does not stop.
SpecApiFair == SpecApi /\ WF_vars(PeriodicSweep) /\ WF_vars(ApiClock)

----------------------------------------------------------------------------
(* Properties of the store under concurrent calls *)

\* A thread between the acquisition and the release of the write lock.
InSection(t) == tstate[t].pc \in {"locked", "inserted", "committed"}

\* A reader returns from a query in this step.
Reads(r) == r \in Readers /\ tstate'[r] # tstate[r]

RowsSeen(r) == Range(tstate[r].ret)

\* C24: at most one store_metrics or cleanup_old_data call is between lock
\* acquisition and release, the lock is held exactly while one is, at most
\* one transaction is open, and until a call commits the table is as it was
\* when the call acquired the lock.
C24_WritersExclusive ==
    /\ Cardinality({t \in Threads : InSection(t)}) <= 1
    /\ locked <=> (\E t \in Threads : InSection(t))
    /\ Cardinality({t \in Threads : tstate[t].tx # NoTx}) <= 1
    /\ \A t \in Threads :
          tstate[t].pc \in {"locked", "inserted"} => table = tstate[t].before

C24_Witness ==
    /\ tstate["w1"].pc = "inserted"
    /\ tstate["w2"].ret = "True"
    /\ tstate["sweep"].op = "cleanup"
    /\ tstate["sweep"].pc = "idle"
    /\ Cardinality(table) = 1
    /\ locked

WholeRow(row, p) ==
    /\ row.timestamp = p.metrics.timestamp
    /\ row.hostname = p.hostname
    /\ row.cpu_percent = p.metrics.cpu.percent
    /\ row.memory_percent = p.metrics.memory.percent
    /\ row.memory_total = p.metrics.memory.total
    /\ row.memory_used = p.metrics.memory.used
    /\ row.swap_percent = p.metrics.swap.percent
    /\ row.disk_data = json_dumps(p.metrics.disk)
    /\ row.network_data = (IF p.metrics.network.has
                           THEN json_dumps(p.metrics.network.v) ELSE Null)
    /\ row.raw_data = json_dumps(p)

\* C26: every row get_recent_metrics returned is a row some store_metrics
\* call committed, with all its columns from the payload of that call; and
\* get_summary_stats counted and aggregated committed rows only.
C26_NoHalfWrittenRow ==
    \A r \in Readers :
        /\ tstate[r].op = "recent" =>
              \A row \in RowsSeen(r) :
                  \E i \in 1..Len(shist) :
                      /\ shist[i].row = row
                      /\ WholeRow(row, shist[i].payload)
        /\ tstate[r].op = "summary" =>
              /\ tstate[r].ret.total_records <= Len(shist)
              /\ tstate[r].ret.max_cpu.has =>
                    \E i \in 1..Len(shist) :
                        shist[i].payload.metrics.cpu.percent
                        = tstate[r].ret.max_cpu.v

C26_Witness ==
    /\ tstate["r1"].op = "recent"
    /\ Len(tstate["r1"].ret) = 1
    /\ tstate["w1"].pc = "inserted"
    /\ tstate["w2"].ret = "True"
    /\ RowsSeen("r1") = table

\* C27: a store_metrics call in which no statement raises adds exactly one
\* row under an id no row of the table has and returns True, also when the
\* same payload is already stored; a call returns True only after its
\* commit; and no two rows of the table share an id.
C27_EveryStoreAddsARow ==
    [][/\ \A t \in Writers :
             /\ (tstate[t].pc = "inserted" /\ tstate'[t].pc = "committed") =>
                   /\ Cardinality(table') = Cardinality(table) + 1
                   /\ table \subseteq table'
                   /\ \A row \in table' \ table :
                         /\ row.id \notin {x.id : x \in table}
                         /\ row.raw_data = json_dumps(tstate[t].arg)
             /\ (tstate[t].pc # "idle" /\ tstate'[t].pc = "idle") =>
                   (tstate'[t].ret = "True" <=> tstate[t].pc = "committed")
       /\ \A x, y \in table' : x.id = y.id => x = y]_vars

C27_Witness ==
    /\ tstate["w1"].ret = "True"
    /\ tstate["w2"].ret = "True"
    /\ tstate["w1"].pc = "idle"
    /\ tstate["w2"].pc = "idle"
    /\ tstate["w1"].arg = tstate["w2"].arg
    /\ Cardinality(table) = 2
    /\ \A x, y \in table : x.raw_data = y.raw_data

\* C28: the ids of the committed rows, in commit order, are strictly
\* increasing, whatever cleanup_old_data deleted in between.
C28_IdsIncrease ==
    \A i, j \in 1..Len(shist) : i < j => shist[i].row.id < shist[j].row.id

C28_Witness ==
    /\ Len(shist) = 2
    /\ shist[1].row \notin table
    /\ shist[2].row \in table
    /\ shist[1].row.id = 1
    /\ shist[2].row.id = 2
    /\ table = {shist[2].row}

\* C29: a store_metrics call in which a statement raises returns False, a
\* cleanup_old_data call in which one raises returns 0, and either leaves
\* the table and the id sequence as they were when the call began and
\* releases the lock.
C29_FailedStoreChangesNothing ==
    [][\A t \in Writers \cup Sweepers :
          (tstate[t].pc \in {"locked", "inserted"} /\ tstate'[t].pc = "idle") =>
             /\ tstate[t].op = "store" => tstate'[t].ret = "False"
             /\ tstate[t].op = "cleanup" => tstate'[t].ret = 0
             /\ table' = table
             /\ table' = tstate[t].before
             /\ sqlite_sequence' = sqlite_sequence
             /\ ~locked']_vars

C29_Witness ==
    /\ tstate["w1"].op = "store"
    /\ tstate["w1"].pc = "idle"
    /\ tstate["w1"].ret = "False"
    /\ tstate["w2"].ret = "True"
    /\ Cardinality(table) = 1
    /\ sqlite_sequence = 1
    /\ ~locked

\* The scalar columns of a row are those of the snapshot m.
ScalarFieldsEqual(row, m) ==
    /\ row.hostname = m.hostname
    /\ row.timestamp = m.timestamp
    /\ row.cpu_percent = m.cpu.percent
    /\ row.memory_percent = m.memory.percent
    /\ row.memory_total = m.memory.total
    /\ row.memory_used = m.memory.used
    /\ row.swap_percent = m.swap.percent

\* C30 as claimed: when one snapshot has been stored in an empty store and
\* the call has returned, a
\* get_recent_metrics call with the snapshot's hostname and a window that
\* covers the row returns exactly one row, whose scalar columns equal the
\* snapshot's fields.
C30_StoredSnapshotReadBack ==
    [][\A r \in Readers :
          (/\ Reads(r)
           /\ tstate'[r].op = "recent"
           /\ ~locked
           /\ Len(shist) = 1
           /\ table = {shist[1].row}
           /\ tstate'[r].arg.hostname = shist[1].payload.metrics.hostname
           /\ shist[1].row.created_at
                > clock - tstate'[r].arg.hours * SecondsPerHour) =>
             /\ Len(tstate'[r].ret) = 1
             /\ ScalarFieldsEqual(tstate'[r].ret[1],
                                  shist[1].payload.metrics)]_vars

\* C32 as claimed: when one row has been stored and cleanup_old_data(0) is
\* then called, after whatever delay, the call deletes that row and
\* returns 1.
C32_CleanupZeroDeletesRow ==
    [][\A t \in Sweepers :
          (/\ tstate[t].pc = "committed"
           /\ tstate'[t].pc = "idle"
           /\ tstate[t].op = "cleanup"
           /\ tstate[t].arg = 0
           /\ Len(shist) = 1
           /\ tstate[t].before = {shist[1].row}) =>
             /\ tstate'[t].ret = 1
             /\ table' = {}]_vars

C37_LockAlwaysReleased ==
    /\ []((\A t \in Writers \cup Sweepers : tstate[t].pc = "idle") => ~locked)
    /\ [][\A t \in Writers \cup Sweepers :
             (tstate[t].pc # "idle" /\ tstate'[t].pc = "idle") => ~locked']_vars
    /\ (locked ~> ~locked)

C37_Witness ==
    /\ tstate["w1"].op = "store"
    /\ tstate["w1"].pc = "idle"
    /\ tstate["w1"].ret = "False"
    /\ tstate["w2"].pc = "inserted"
    /\ tstate["sweep"].op = "cleanup"
    /\ tstate["sweep"].pc = "idle"
    /\ tstate["sweep"].ret = 0
    /\ table = {}
    /\ locked

\* C31: the sequence get_recent_metrics returns holds no row twice, only
\* rows ingested less than 'hours' hours before the call and, when a
\* hostname is given, of that hostname; it is ordered newest first; it holds
\* all such rows when they are at most 1000 and otherwise 1000 of them, none
\* of which is older than a row left out.
C31_RecentWindowNewestFirstCapped ==
    [][\A r \in Readers :
          (Reads(r) /\ tstate'[r].op = "recent") =>
             LET res == tstate'[r].ret
                 a == tstate'[r].arg
                 W == {x \in table :
                          /\ clock - x.created_at < a.hours * SecondsPerHour
                          /\ a.hostname # "" => x.hostname = a.hostname}
             IN /\ Range(res) \subseteq W
                /\ Cardinality(Range(res)) = Len(res)
                /\ \A i \in 1..Len(res) - 1 :
                      res[i].created_at >= res[i + 1].created_at
                /\ Len(res) = (IF Cardinality(W) <= 1000
                               THEN Cardinality(W) ELSE 1000)
                /\ \A x \in W \ Range(res) :
                      x.created_at <= res[Len(res)].created_at]_vars

C31_Witness ==
    /\ Cardinality(table) = 1001
    /\ tstate["r1"].op = "recent"
    /\ tstate["r1"].arg.hostname = ""
    /\ Len(tstate["r1"].ret) = 1000
    /\ tstate["r1"].ret[1].id = 1001
    /\ tstate["r1"].ret[1000].id = 2
    /\ \E x \in table : x.hostname = "h2"
    /\ clock = 1001

\* The aggregates of one column over the rows W, as get_summary_stats
\* reports them.
AggregatesOf(avg, max, W, col) ==
    IF W = {}
    THEN avg = Null /\ max = Null
    ELSE /\ avg.has
         /\ avg.count = Cardinality(W)
         /\ avg.sum = SumOf(W, col)
         /\ max.has
         /\ \E x \in W : x[col] = max.v
         /\ \A x \in W : x[col] <= max.v

C36_SignalOnlyClearsRunning ==
    [][(running /\ ~running') =>
          /\ UNCHANGED <<now, config, alert_cooldown, pc, attempt, result,
                         trace, alertCalls, firedByType, rpc, start_time,
                         wakeAt, amVars, evalVars, storeVars>>
          /\ sched' = [sched EXCEPT !.signalIn = sched'.signalIn,
                                    !.signalPosts = sched'.signalPosts]]_vars

C36_Witness ==
    /\ ~running
    /\ sched.signalIn = "cycle"
    /\ sched.signalPosts = 1
    /\ rpc = "cycle"
    /\ pc = "sleep"
    /\ Posts = 1

\* C40: in both implementations a call whose key has fired before is
\* suppressed exactly when fewer seconds than the cooldown window have
\* passed since that firing; a call exactly one window after it is not
\* suppressed and sets the entry of its key to its own time.
C40_StrictCooldownBound ==
    /\ (AMCalled /\ amCall.before # NoEntry) =>
          LET elapsed == (amCall.at - amCall.before) * SecondsPerTick
              window == am_config.cooldown_minutes * 60
          IN /\ amCall.suppressed <=> elapsed < window
             /\ elapsed = window =>
                   (~amCall.suppressed /\ amCall.after >= amCall.at)
    /\ \A i \in 1..Len(alertCalls) :
          LET c == alertCalls[i]
              elapsed == (c.at - c.before) * SecondsPerTick
              window == config.cooldown_minutes * 60
          IN c.before # NoEntry =>
                /\ c.suppressed <=> elapsed < window
                /\ elapsed = window => (~c.suppressed /\ c.after = c.at)

C40_Witness ==
    /\ AMCalled
    /\ amCall.before # NoEntry
    /\ (amCall.at - amCall.before) * SecondsPerTick
         = am_config.cooldown_minutes * 60
    /\ ~amCall.suppressed
    /\ amCall.after >= amCall.at
    /\ amCall.sends # << >>

\* The collector's half of C40 at work: a _send_alert call exactly one
\* window after the last firing of its key that fired.
CollectorFiresAtWindowEnd ==
    \E i \in 1..Len(alertCalls) :
        /\ alertCalls[i].before # NoEntry
        /\ (alertCalls[i].at - alertCalls[i].before) * SecondsPerTick
             = config.cooldown_minutes * 60
        /\ ~alertCalls[i].suppressed
        /\ alertCalls[i].logged


----------------------------------------------------------------------------
(* Properties of the ingestion service *)

C38_StoreFailureGives500 ==
    (api.kind = "ingest" /\ api.stored = "False") => api.status = 500

\* C39: periodic_cleanup calls cleanup_old_data(30) once per 24-hour period
\* for as long as the service runs: every sweep comes at least 24 hours
\* after the one before (the first, after startup), a sweep that fails does
\* not end the loop, and after every sweep another one eventually runs.
C39_SweepKeepsRunning ==
    /\ [](\A i \in 1..Len(api.sweepLog) :
             /\ api.sweepLog[i].days = 30
             /\ api.sweepLog[i].at >=
                    (IF i = 1 THEN 0 ELSE api.sweepLog[i - 1].at) + 24 * 60 * 60)
    /\ [](api.sweeps = Len(api.sweepLog))
    /\ \A k \in 0..(MaxSweeps - 1) : (api.sweeps = k) ~> (api.sweeps = k + 1)

\* A sweep that failed was followed, a day later, by one that deleted the
\* row that had become older than 30 days.
C39_Witness ==
    /\ Len(api.sweepLog) = 2
    /\ ~api.sweepLog[1].ok
    /\ api.sweepLog[2].ok
    /\ api.sweepLog[2].deleted = 1
    /\ table = {}

====
